---- MODULE Spec2Model ----
(***************************************************************************)
(* Model of anki-mcp: the AnkiConnect JSON-RPC client (ankiconnect.go) and *)
(* the MCP tool handlers of the full-featured server (unnamed/part_000).   *)
(*                                                                         *)
(* A Go string is a sequence of text fragments; the strings the code       *)
(* inspects character by character (limit, media data) are sequences of    *)
(* single characters.  Concatenation is \o and "" is << >>.                *)
(* A dynamically typed value (an entry of the argument bag, a JSON value   *)
(* of a reply) is a record with a type tag t and one payload per kind:     *)
(* s the text of a string or the literal of a number, l the elements of a  *)
(* list, o the members of an object.                                       *)
(***************************************************************************)
EXTENDS Integers, Sequences, FiniteSets, TLC

\* ------------------------------------------------------------------ bounds
\* longest limit string generated character by character
MaxLimitLen == 2
\* longest generated tail of a media data string
MaxTail == 2
\* longest tags list of an argument bag
MaxTags == 2
\* longest generated notesInfo reply
MaxInfo == 2
\* longest generated list of deck, model or field names
MaxNames == 2
\* tool calls the server has in flight at the same time
MaxCalls == 2

\* ------------------------------------------------------- program constants
defaultAnkiConnectURL == <<"http://localhost:8765">>
ankiConnectVersion == 6
TimeoutSeconds == 30
DefaultLimit == 10

\* --------------------------------------------------------- string helpers
Chars(S, n) == UNION {[1..k -> S] : k \in 0..n}

RECURSIVE Join(_, _)
\* strings.Join(elems, sep)
Join(elems, sep) ==
    IF elems = << >> THEN << >>
    ELSE IF Len(elems) = 1 THEN elems[1]
    ELSE elems[1] \o sep \o Join(Tail(elems), sep)

\* strings.HasPrefix(s, p)
HasPrefix(s, p) == Len(s) >= Len(p) /\ SubSeq(s, 1, Len(p)) = p

\* strings.Contains(s, sub)
Contains(s, sub) ==
    \E i \in 1..(Len(s) + 1) :
        i + Len(sub) - 1 <= Len(s) /\ SubSeq(s, i, i + Len(sub) - 1) = sub

RECURSIVE Split(_, _)
\* strings.Split(s, sep) for a one-character separator: the pieces between
\* ALL occurrences of sep, so k separators give k+1 pieces
Split(s, sep) ==
    IF \A i \in 1..Len(s) : s[i] # sep THEN <<s>>
    ELSE LET i == CHOOSE j \in 1..Len(s) :
                      s[j] = sep /\ \A k \in 1..(j - 1) : s[k] # sep
         IN <<SubSeq(s, 1, i - 1)>> \o Split(SubSeq(s, i + 1, Len(s)), sep)

Digits == <<"0", "1", "2", "3", "4", "5", "6", "7", "8", "9">>
IsDigit(c) == \E d \in 1..10 : Digits[d] = c
DigitVal(c) == (CHOOSE d \in 1..10 : Digits[d] = c) - 1

RECURSIVE Itoa(_)
\* the %d rendering of a non-negative integer
Itoa(n) == IF n < 10 THEN <<Digits[n + 1]>>
           ELSE Itoa(n \div 10) \o <<Digits[(n % 10) + 1]>>

RECURSIVE DecVal(_)
DecVal(ds) == IF ds = << >> THEN 0
              ELSE DecVal(SubSeq(ds, 1, Len(ds) - 1)) * 10 + DigitVal(ds[Len(ds)])

\* strconv.Atoi(s): an optional sign, then one or more decimal digits and
\* nothing else.  The generated strings are far too short to leave the
\* range of int, so the range error of Atoi cannot occur here.
Atoi(s) ==
    LET signed == s # << >> /\ s[1] \in {"+", "-"}
        ds == IF signed THEN Tail(s) ELSE s
    IN IF ds = << >> \/ \E i \in 1..Len(ds) : ~IsDigit(ds[i])
       THEN [ok |-> FALSE, n |-> 0]
       ELSE [ok |-> TRUE,
             n |-> IF signed /\ s[1] = "-" THEN 0 - DecVal(ds) ELSE DecVal(ds)]

\* ------------------------------------------------- dynamically typed values
Value(t, s, l, o) == [t |-> t, s |-> s, l |-> l, o |-> o]
Absent == Value("absent", << >>, << >>, << >>)
Str(s) == Value("str", s, << >>, << >>)
\* a JSON number, kept as its literal: digits, then maybe "." and digits
Num(lit) == Value("num", lit, << >>, << >>)
Null == Value("null", << >>, << >>, << >>)
List(l) == Value("list", << >>, l, << >>)

\* the comma-ok type assertion x.(string)
IsString(x) == x.t = "str"
\* the comma-ok type assertion x.([]interface{})
IsList(x) == x.t = "list"
\* the comma-ok type assertion x.(float64)
IsNumber(x) == x.t = "num"
\* int64(f) for a float64 f >= 0: the fraction is cut off
ToInt64(lit) == DecVal(Split(lit, ".")[1])

\* an object is the sequence of its members
Member(k, val) == [k |-> k, val |-> val]
Obj(members) == Value("obj", << >>, << >>, members)
\* the comma-ok type assertion x.(map[string]interface{})
IsObject(x) == x.t = "obj"
\* m[key] of a map[string]interface{}: the nil interface for a missing key
\* (of two members with one key, json.Unmarshal keeps the last)
Get(m, key) ==
    IF \E i \in 1..Len(m) : m[i].k = key
    THEN m[CHOOSE i \in 1..Len(m) :
               m[i].k = key /\ \A j \in (i + 1)..Len(m) : m[j].k # key].val
    ELSE Absent

\* ------------------------------------------------------------- RPC client
\* NewAnkiConnect()
NewAnkiConnect ==
    [URL |-> defaultAnkiConnectURL, Version |-> ankiConnectVersion,
     Timeout |-> TimeoutSeconds]

\* NewAnkiConnectWithURL(url)
NewAnkiConnectWithURL(url) == [NewAnkiConnect EXCEPT !.URL = url]

\* NewAnkiMCPServer() that does not look at ANKI_CONNECT_URL
NewAnkiMCPServerIgnoringEnv(env) == [ankiClient |-> NewAnkiConnect]

\* NewAnkiMCPServer(), env being the value of ANKI_CONNECT_URL
NewAnkiMCPServer(env) ==
    [ankiClient |-> NewAnkiConnectWithURL(
                        IF env = << >> THEN defaultAnkiConnectURL ELSE env)]

\* the ankiRequest put on the wire; params = nil is omitted (omitempty)
ankiRequest(ac, action, hasParams, params) ==
    [url |-> ac.URL, action |-> action, version |-> ac.Version,
     hasParams |-> hasParams, params |-> params]

\* What the remote endpoint does with one request:
\*   kind "postfail"  client.Post fails (unreachable, timeout)
\*   kind "readfail"  reading the body fails
\*   kind "badjson"   the body does not unmarshal into ankiResponse
\*   kind "envelope"  the body is {"result": result, "error": error}
Reply(kind, detail, error, result) ==
    [kind |-> kind, detail |-> detail, error |-> error, result |-> result]

Fail(req, err) == [req |-> req, ok |-> FALSE, err |-> err, val |-> << >>]
Done(req, val) == [req |-> req, ok |-> TRUE, err |-> << >>, val |-> val]

\* invoke without the check of the envelope's error field
invokeIgnoringError(ac, action, hasParams, params, reply) ==
    LET req == ankiRequest(ac, action, hasParams, params)
    IN CASE reply.kind = "postfail" ->
              Fail(req, <<"failed to connect to AnkiConnect: ">> \o reply.detail)
         [] reply.kind = "readfail" ->
              Fail(req, <<"failed to read response: ">> \o reply.detail)
         [] reply.kind = "badjson" ->
              Fail(req, <<"failed to unmarshal response: ">> \o reply.detail)
         [] OTHER -> Done(req, reply.result)

\* invoke looking at the result before the error field: an envelope with
\* a result that is not null succeeds whatever its error field says
invokeResultFirst(ac, action, hasParams, params, reply) ==
    LET req == ankiRequest(ac, action, hasParams, params)
    IN CASE reply.kind = "postfail" ->
              Fail(req, <<"failed to connect to AnkiConnect: ">> \o reply.detail)
         [] reply.kind = "readfail" ->
              Fail(req, <<"failed to read response: ">> \o reply.detail)
         [] reply.kind = "badjson" ->
              Fail(req, <<"failed to unmarshal response: ">> \o reply.detail)
         [] OTHER ->
              IF reply.result # Null THEN Done(req, reply.result)
              ELSE IF reply.error # << >>
              THEN Fail(req, <<"AnkiConnect error: ">> \o reply.error)
              ELSE Done(req, reply.result)

\* ac.invoke(action, params) when the remote answers with reply.  The
\* params the wrappers pass always marshal, so the marshal error is left out.
invoke(ac, action, hasParams, params, reply) ==
    LET req == ankiRequest(ac, action, hasParams, params)
    IN CASE reply.kind = "postfail" ->
              Fail(req, <<"failed to connect to AnkiConnect: ">> \o reply.detail)
         [] reply.kind = "readfail" ->
              Fail(req, <<"failed to read response: ">> \o reply.detail)
         [] reply.kind = "badjson" ->
              Fail(req, <<"failed to unmarshal response: ">> \o reply.detail)
         [] OTHER ->
              IF reply.error # << >>
              THEN Fail(req, <<"AnkiConnect error: ">> \o reply.error)
              ELSE Done(req, reply.result)

\* the narrowing loop leaving out the elements that are not strings
StringListSkipping(r, what) ==
    IF ~r.ok THEN r
    ELSE IF ~IsList(r.val) THEN Fail(r.req, <<"unexpected response type">>)
    ELSE LET strs == SelectSeq(r.val.l, IsString)
         IN Done(r.req, [i \in 1..Len(strs) |-> strs[i].s])

\* the narrowing loop shared by GetDeckNames, GetModelNames and
\* GetModelFieldNames: a []interface{} whose elements are all strings
StringList(r, what) ==
    IF ~r.ok THEN r
    ELSE IF ~IsList(r.val) THEN Fail(r.req, <<"unexpected response type">>)
    ELSE IF \E i \in 1..Len(r.val.l) : ~IsString(r.val.l[i])
         THEN Fail(r.req, <<"unexpected ", what, " type">>)
         ELSE Done(r.req, [i \in 1..Len(r.val.l) |-> r.val.l[i].s])

\* a wrapper that discards the result
Discard(r) == IF r.ok THEN Done(r.req, << >>) ELSE r

\* ac.Ping()
Ping(ac, reply) == Discard(invoke(ac, "version", FALSE, << >>, reply))

\* ac.GetDeckNames()
GetDeckNames(ac, reply) ==
    StringList(invoke(ac, "deckNames", FALSE, << >>, reply), "deck name")

\* ac.CreateDeck(name)
CreateDeck(ac, name, reply) ==
    Discard(invoke(ac, "createDeck", TRUE, [deck |-> name], reply))

\* ac.DeleteDeck(name)
DeleteDeck(ac, name, reply) ==
    Discard(invoke(ac, "deleteDecks", TRUE,
                   [decks |-> <<name>>, cardsToo |-> TRUE], reply))

\* ac.UpdateNoteFields(noteID, fields)
UpdateNoteFields(ac, noteID, fields, reply) ==
    Discard(invoke(ac, "updateNoteFields", TRUE,
                   [note |-> [id |-> noteID, fields |-> fields]], reply))

\* ac.AddNote(note)
AddNote(ac, note, reply) ==
    LET r == invoke(ac, "addNote", TRUE, [note |-> note], reply)
    IN IF ~r.ok THEN r
       ELSE IF IsNumber(r.val) THEN Done(r.req, ToInt64(r.val.s))
       ELSE Fail(r.req, <<"unexpected note ID type">>)

\* ac.FindNotes(query)
FindNotes(ac, query, reply) ==
    LET r == invoke(ac, "findNotes", TRUE, [query |-> query], reply)
    IN IF ~r.ok THEN r
       ELSE IF ~IsList(r.val) THEN Fail(r.req, <<"unexpected response type">>)
       ELSE IF \E i \in 1..Len(r.val.l) : ~IsNumber(r.val.l[i])
            THEN Fail(r.req, <<"unexpected note ID type">>)
            ELSE Done(r.req, [i \in 1..Len(r.val.l) |-> ToInt64(r.val.l[i].s)])

\* ac.GetNotesInfo(noteIDs)
GetNotesInfo(ac, noteIDs, reply) ==
    LET r == invoke(ac, "notesInfo", TRUE, [notes |-> noteIDs], reply)
    IN IF ~r.ok THEN r
       ELSE IF ~IsList(r.val) THEN Fail(r.req, <<"unexpected response type">>)
       ELSE IF \E i \in 1..Len(r.val.l) : ~IsObject(r.val.l[i])
            THEN Fail(r.req, <<"unexpected note type">>)
            ELSE Done(r.req, [i \in 1..Len(r.val.l) |-> r.val.l[i].o])

\* ac.GetModelNames()
GetModelNames(ac, reply) ==
    StringList(invoke(ac, "modelNames", FALSE, << >>, reply), "model name")

\* ac.GetModelFieldNames(modelName)
GetModelFieldNames(ac, modelName, reply) ==
    StringList(invoke(ac, "modelFieldNames", TRUE, [modelName |-> modelName], reply),
               "field name")

\* ac.Sync() passing an empty params map in place of nil
SyncWithParams(ac, reply) == Discard(invoke(ac, "sync", TRUE, << >>, reply))

\* ac.Sync()
Sync(ac, reply) == Discard(invoke(ac, "sync", FALSE, << >>, reply))

\* ------------------------------------------------------------------ base64
B64Chars ==
    <<"A", "B", "C", "D", "E", "F", "G", "H", "I", "J", "K", "L", "M",
      "N", "O", "P", "Q", "R", "S", "T", "U", "V", "W", "X", "Y", "Z",
      "a", "b", "c", "d", "e", "f", "g", "h", "i", "j", "k", "l", "m",
      "n", "o", "p", "q", "r", "s", "t", "u", "v", "w", "x", "y", "z",
      "0", "1", "2", "3", "4", "5", "6", "7", "8", "9", "+", "/">>
IsB64(c) == \E i \in 1..64 : B64Chars[i] = c
B64Val(c) == (CHOOSE i \in 1..64 : B64Chars[i] = c) - 1

RECURSIVE EncodeToString(_)
\* base64.StdEncoding.EncodeToString(b), b a sequence of bytes 0..255
EncodeToString(b) ==
    IF b = << >> THEN << >>
    ELSE LET c1 == B64Chars[(b[1] \div 4) + 1]
         IN IF Len(b) = 1
            THEN <<c1, B64Chars[((b[1] % 4) * 16) + 1], "=", "=">>
            ELSE LET c2 == B64Chars[((b[1] % 4) * 16) + (b[2] \div 16) + 1]
                 IN IF Len(b) = 2
                    THEN <<c1, c2, B64Chars[((b[2] % 16) * 4) + 1], "=">>
                    ELSE <<c1, c2,
                           B64Chars[((b[2] % 16) * 4) + (b[3] \div 64) + 1],
                           B64Chars[(b[3] % 64) + 1]>>
                         \o EncodeToString(SubSeq(b, 4, Len(b)))

RECURSIVE DecodeString(_)
\* base64.StdEncoding.DecodeString(s): quanta of four characters, padding
\* only at the end of the last quantum, trailing bits not checked
DecodeString(s) ==
    IF s = << >> THEN [ok |-> TRUE, bytes |-> << >>]
    ELSE IF Len(s) < 4 \/ ~IsB64(s[1]) \/ ~IsB64(s[2])
         THEN [ok |-> FALSE, bytes |-> << >>]
    ELSE LET b1 == (B64Val(s[1]) * 4) + (B64Val(s[2]) \div 16)
         IN IF s[3] = "="
            THEN IF s[4] = "=" /\ Len(s) = 4
                 THEN [ok |-> TRUE, bytes |-> <<b1>>]
                 ELSE [ok |-> FALSE, bytes |-> << >>]
            ELSE IF ~IsB64(s[3]) THEN [ok |-> FALSE, bytes |-> << >>]
            ELSE LET b2 == ((B64Val(s[2]) % 16) * 16) + (B64Val(s[3]) \div 4)
                 IN IF s[4] = "="
                    THEN IF Len(s) = 4
                         THEN [ok |-> TRUE, bytes |-> <<b1, b2>>]
                         ELSE [ok |-> FALSE, bytes |-> << >>]
                    ELSE IF ~IsB64(s[4]) THEN [ok |-> FALSE, bytes |-> << >>]
                    ELSE LET b3 == ((B64Val(s[3]) % 4) * 64) + B64Val(s[4])
                             rest == DecodeString(SubSeq(s, 5, Len(s)))
                         IN IF rest.ok
                            THEN [ok |-> TRUE, bytes |-> <<b1, b2, b3>> \o rest.bytes]
                            ELSE [ok |-> FALSE, bytes |-> << >>]

\* ac.StoreMediaFile(filename, data)
StoreMediaFile(ac, filename, data, reply) ==
    Discard(invoke(ac, "storeMediaFile", TRUE,
                   [filename |-> filename, data |-> EncodeToString(data)], reply))

\* ------------------------------------------------ media payload resolution
\* What the filesystem answers for one path: does os.Stat succeed, does
\* os.ReadFile succeed, and with which bytes.
FsAnswer(stat, read, bytes) == [stat |-> stat, read |-> read, bytes |-> bytes]

MFail(err, ops) == [ok |-> FALSE, err |-> err, val |-> << >>, fsops |-> ops]
MDone(val, ops) == [ok |-> TRUE, err |-> << >>, val |-> val, fsops |-> ops]

\* fileToBase64(filePath)
fileToBase64(filePath, fs) ==
    LET ops == <<[op |-> "ReadFile", path |-> filePath]>>
    IN IF ~fs.read
       THEN MFail(<<"failed to read file ">> \o filePath \o <<": ", "read error">>, ops)
       ELSE MDone(EncodeToString(fs.bytes), ops)

DataPrefix == <<"d", "a", "t", "a", ":">>
Base64Marker == <<"b", "a", "s", "e", "6", "4", ",">>

\* processMediaData with len(parts) >= 2 in place of len(parts) == 2
processMediaDataSplitN(data, fs) ==
    IF HasPrefix(data, DataPrefix)
    THEN LET parts == Split(data, ",")
         IN IF Len(parts) >= 2 THEN MDone(parts[2], << >>)
            ELSE MFail(<<"invalid data URI format">>, << >>)
    ELSE IF (Contains(data, <<"/">>) \/ Contains(data, <<"\\">>))
            /\ ~Contains(data, Base64Marker)
    THEN LET st == <<[op |-> "Stat", path |-> data]>>
         IN IF fs.stat
            THEN LET r == fileToBase64(data, fs)
                 IN [r EXCEPT !.fsops = st \o r.fsops]
            ELSE MDone(data, st)
    ELSE MDone(data, << >>)

\* processMediaData without the format error: a data URI that does not split
\* in two goes on to the path check
processMediaDataNoFormatError(data, fs) ==
    IF HasPrefix(data, DataPrefix) /\ Len(Split(data, ",")) = 2
    THEN MDone(Split(data, ",")[2], << >>)
    ELSE IF (Contains(data, <<"/">>) \/ Contains(data, <<"\\">>))
            /\ ~Contains(data, Base64Marker)
    THEN LET st == <<[op |-> "Stat", path |-> data]>>
         IN IF fs.stat
            THEN LET r == fileToBase64(data, fs)
                 IN [r EXCEPT !.fsops = st \o r.fsops]
            ELSE MDone(data, st)
    ELSE MDone(data, << >>)

\* processMediaData taking the part after the comma of any string that
\* holds "base64,", with or without the "data:" prefix
processMediaDataMarkerSplit(data, fs) ==
    IF HasPrefix(data, DataPrefix) \/ Contains(data, Base64Marker)
    THEN LET parts == Split(data, ",")
         IN IF Len(parts) = 2 THEN MDone(parts[2], << >>)
            ELSE MFail(<<"invalid data URI format">>, << >>)
    ELSE IF Contains(data, <<"/">>) \/ Contains(data, <<"\\">>)
    THEN LET st == <<[op |-> "Stat", path |-> data]>>
         IN IF fs.stat
            THEN LET r == fileToBase64(data, fs)
                 IN [r EXCEPT !.fsops = st \o r.fsops]
            ELSE MDone(data, st)
    ELSE MDone(data, << >>)

\* processMediaData passing the string on when the file cannot be read
processMediaDataFallingThrough(data, fs) ==
    IF HasPrefix(data, DataPrefix)
    THEN LET parts == Split(data, ",")
         IN IF Len(parts) = 2 THEN MDone(parts[2], << >>)
            ELSE MFail(<<"invalid data URI format">>, << >>)
    ELSE IF (Contains(data, <<"/">>) \/ Contains(data, <<"\\">>))
            /\ ~Contains(data, Base64Marker)
    THEN LET st == <<[op |-> "Stat", path |-> data]>>
         IN IF fs.stat
            THEN LET r == fileToBase64(data, fs)
                 IN IF r.ok THEN [r EXCEPT !.fsops = st \o r.fsops]
                    ELSE MDone(data, st \o r.fsops)
            ELSE MDone(data, st)
    ELSE MDone(data, << >>)

\* processMediaData(data)
processMediaData(data, fs) ==
    IF HasPrefix(data, DataPrefix)
    THEN LET parts == Split(data, ",")
         IN IF Len(parts) = 2 THEN MDone(parts[2], << >>)
            ELSE MFail(<<"invalid data URI format">>, << >>)
    ELSE IF (Contains(data, <<"/">>) \/ Contains(data, <<"\\">>))
            /\ ~Contains(data, Base64Marker)
    THEN LET st == <<[op |-> "Stat", path |-> data]>>
         IN IF fs.stat
            THEN LET r == fileToBase64(data, fs)
                 IN [r EXCEPT !.fsops = st \o r.fsops]
            ELSE MDone(data, st)
    ELSE MDone(data, << >>)

\* ------------------------------------------------------------ tool results
\* errorResult(message)
errorResult(message) ==
    [fault |-> FALSE, isError |-> TRUE, text |-> <<"Error: ">> \o message]

\* a CallToolResult with one text content and IsError left false
textResult(text) == [fault |-> FALSE, isError |-> FALSE, text |-> text]

\* the handler does not return: a run-time panic leaves it
panicResult(what) == [fault |-> TRUE, isError |-> FALSE, text |-> what]

noResult == [fault |-> FALSE, isError |-> FALSE, text |-> << >>]

\* What one run of a handler leaves behind: its result, the requests it
\* sent and the replies it consumed (in order), the filesystem calls it
\* made, and the value of the local variable limit (0: never assigned).
Out(res, reqs, reps, ops, lim) ==
    [result |-> res, requests |-> reqs, replies |-> reps, fsops |-> ops,
     limit |-> lim]

RECURSIVE UniqueStrings(_)
\* the tags loop skipping a tag that was seen before
UniqueStrings(l) ==
    IF l = << >> THEN << >>
    ELSE LET rest == UniqueStrings(SubSeq(l, 1, Len(l) - 1))
             x == l[Len(l)]
         IN IF IsString(x) /\ \A i \in 1..Len(rest) : rest[i] # x.s
            THEN rest \o <<x.s>> ELSE rest

\* the tags loop of the create handlers: the string elements of a list
StringElems(l) ==
    LET strs == SelectSeq(l, IsString)
    IN [i \in 1..Len(strs) |-> strs[i].s]
ExtractTags(x) == IF IsList(x) THEN StringElems(x.l) ELSE << >>

\* modelName, _ := args["model_name"].(string) without the default
ModelNameUnchecked(x) == IF IsString(x) THEN x.s ELSE << >>

\* modelName := "Basic", replaced by a non-empty string model_name
ModelName(x) == IF IsString(x) /\ x.s # << >> THEN x.s ELSE <<"Basic">>

\* the Note literal with the two field values interchanged
NewNoteSwapped(deckName, modelName, front, back, tags) ==
    [DeckName |-> deckName, ModelName |-> modelName,
     Fields |-> [Front |-> back, Back |-> front],
     Tags |-> tags, Audio |-> << >>, Picture |-> << >>,
     Options |-> [allowDuplicate |-> FALSE]]

\* the Note literal with allowDuplicate set
NewNoteAllowingDuplicates(deckName, modelName, front, back, tags) ==
    [DeckName |-> deckName, ModelName |-> modelName,
     Fields |-> [Front |-> front, Back |-> back],
     Tags |-> tags, Audio |-> << >>, Picture |-> << >>,
     Options |-> [allowDuplicate |-> TRUE]]

\* the Note literal of handleCreateCard and handleCreateCardWithMedia
NewNote(deckName, modelName, front, back, tags) ==
    [DeckName |-> deckName, ModelName |-> modelName,
     Fields |-> [Front |-> front, Back |-> back],
     Tags |-> tags, Audio |-> << >>, Picture |-> << >>,
     Options |-> [allowDuplicate |-> FALSE]]

\* handleCreateCard taking an empty deck_name for a missing one
CreateCardRunRejectingEmpty(ac, a, reply) ==
    IF ~IsString(a.deck_name) \/ a.deck_name.s = << >>
    THEN Out(errorResult(<<"deck_name is required and must be a string">>),
             << >>, << >>, << >>, 0)
    ELSE IF ~IsString(a.front)
    THEN Out(errorResult(<<"front is required and must be a string">>),
             << >>, << >>, << >>, 0)
    ELSE IF ~IsString(a.back)
    THEN Out(errorResult(<<"back is required and must be a string">>),
             << >>, << >>, << >>, 0)
    ELSE LET note == NewNote(a.deck_name.s, ModelName(a.model_name),
                             a.front.s, a.back.s, ExtractTags(a.tags))
             r == AddNote(ac, note, reply)
         IN IF ~r.ok
            THEN Out(errorResult(<<"Failed to create card: ">> \o r.err),
                     <<r.req>>, <<reply>>, << >>, 0)
            ELSE Out(textResult(<<"Successfully created card with ID: ">>
                                \o Itoa(r.val)),
                     <<r.req>>, <<reply>>, << >>, 0)

\* handleCreateCard
CreateCardRun(ac, a, reply) ==
    IF ~IsString(a.deck_name)
    THEN Out(errorResult(<<"deck_name is required and must be a string">>),
             << >>, << >>, << >>, 0)
    ELSE IF ~IsString(a.front)
    THEN Out(errorResult(<<"front is required and must be a string">>),
             << >>, << >>, << >>, 0)
    ELSE IF ~IsString(a.back)
    THEN Out(errorResult(<<"back is required and must be a string">>),
             << >>, << >>, << >>, 0)
    ELSE LET note == NewNote(a.deck_name.s, ModelName(a.model_name),
                             a.front.s, a.back.s, ExtractTags(a.tags))
             r == AddNote(ac, note, reply)
         IN IF ~r.ok
            THEN Out(errorResult(<<"Failed to create card: ">> \o r.err),
                     <<r.req>>, <<reply>>, << >>, 0)
            ELSE Out(textResult(<<"Successfully created card with ID: ">>
                                \o Itoa(r.val)),
                     <<r.req>>, <<reply>>, << >>, 0)

\* handleListDecks joining the names with ", "
ListDecksRunCommaJoined(ac, reply) ==
    LET r == GetDeckNames(ac, reply)
    IN IF ~r.ok
       THEN Out(errorResult(<<"Failed to get deck names: ">> \o r.err),
                <<r.req>>, <<reply>>, << >>, 0)
       ELSE Out(textResult(<<"Available decks (">> \o Itoa(Len(r.val))
                           \o <<"):\n">> \o Join(r.val, <<", ">>)),
                <<r.req>>, <<reply>>, << >>, 0)

\* handleListDecks
ListDecksRun(ac, reply) ==
    LET r == GetDeckNames(ac, reply)
    IN IF ~r.ok
       THEN Out(errorResult(<<"Failed to get deck names: ">> \o r.err),
                <<r.req>>, <<reply>>, << >>, 0)
       ELSE Out(textResult(<<"Available decks (">> \o Itoa(Len(r.val))
                           \o <<"):\n">> \o Join(r.val, <<"\n">>)),
                <<r.req>>, <<reply>>, << >>, 0)

\* handleCreateDeck with deckName, _ := args["deck_name"].(string): a value
\* that is not a string becomes "" and the call goes on
CreateDeckRunUnchecked(ac, a, reply) ==
    LET deckName == IF IsString(a.deck_name) THEN a.deck_name.s ELSE << >>
        r == CreateDeck(ac, deckName, reply)
    IN IF ~r.ok
       THEN Out(errorResult(<<"Failed to create deck: ">> \o r.err),
                <<r.req>>, <<reply>>, << >>, 0)
       ELSE Out(textResult(<<"Successfully created deck: ">> \o deckName),
                <<r.req>>, <<reply>>, << >>, 0)

\* handleCreateDeck
CreateDeckRun(ac, a, reply) ==
    IF ~IsString(a.deck_name)
    THEN Out(errorResult(<<"deck_name is required and must be a string">>),
             << >>, << >>, << >>, 0)
    ELSE LET r == CreateDeck(ac, a.deck_name.s, reply)
         IN IF ~r.ok
            THEN Out(errorResult(<<"Failed to create deck: ">> \o r.err),
                     <<r.req>>, <<reply>>, << >>, 0)
            ELSE Out(textResult(<<"Successfully created deck: ">> \o a.deck_name.s),
                     <<r.req>>, <<reply>>, << >>, 0)

\* the limit with parsedLimit >= 0 in place of parsedLimit > 0
SearchLimitNonNegative(x) ==
    IF IsString(x) /\ x.s # << >>
    THEN LET p == Atoi(x.s)
         IN IF p.ok /\ p.n >= 0 THEN p.n ELSE DefaultLimit
    ELSE DefaultLimit

\* limit := 10, replaced by a string limit that parses to a positive int
SearchLimit(x) ==
    IF IsString(x) /\ x.s # << >>
    THEN LET p == Atoi(x.s)
         IN IF p.ok /\ p.n > 0 THEN p.n ELSE DefaultLimit
    ELSE DefaultLimit

\* the truncation keeping the last limit identifiers
TruncateKeepingLast(noteIDs, lim) ==
    IF Len(noteIDs) > lim
    THEN SubSeq(noteIDs, Len(noteIDs) - lim + 1, Len(noteIDs)) ELSE noteIDs

\* noteIDs = noteIDs[:limit] when there are more than limit
Truncate(noteIDs, lim) ==
    IF Len(noteIDs) > lim THEN SubSeq(noteIDs, 1, lim) ELSE noteIDs

\* the field text taken without the test that "value" is a string
FieldValueUnchecked(fields, name) ==
    LET f == Get(fields, name)
    IN IF IsObject(f) THEN Get(f.o, "value").s ELSE << >>

\* the text of a field of the per-note detail object
FieldValue(fields, name) ==
    LET f == Get(fields, name)
    IN IF IsObject(f) /\ IsString(Get(f.o, "value"))
       THEN Get(f.o, "value").s ELSE << >>

\* one entry of results: the block rendered for noteIDs[i]
NoteBlock(noteID, noteInfo) ==
    LET fields == Get(noteInfo, "fields").o
        tags == ExtractTags(Get(noteInfo, "tags"))
    IN <<"ID: ">> \o Itoa(noteID)
       \o <<"\nFront: ">> \o FieldValue(fields, "Front")
       \o <<"\nBack: ">> \o FieldValue(fields, "Back")
       \o (IF Len(tags) > 0 THEN <<"\nTags: ">> \o Join(tags, <<", ">>)
           ELSE << >>)

\* the rendering loop without the skip
SearchResultsUnfiltered(noteIDs, notesInfo) ==
    [k \in 1..Len(notesInfo) |-> NoteBlock(noteIDs[k], notesInfo[k])]

\* the rendering loop: a note whose "fields" is not an object is skipped
SearchResults(noteIDs, notesInfo) ==
    LET HasFields(i) == IsObject(Get(notesInfo[i], "fields"))
        kept == SelectSeq([i \in 1..Len(notesInfo) |-> i], HasFields)
    IN [k \in 1..Len(kept) |-> NoteBlock(noteIDs[kept[k]], notesInfo[kept[k]])]

\* the text of a successful search
SearchText(noteIDs, results) ==
    <<"Found ">> \o Itoa(Len(noteIDs)) \o <<" cards (showing ">>
    \o Itoa(Len(results)) \o <<"):\n\n">> \o Join(results, <<"\n\n---\n\n">>)

\* handleSearchCards
SearchCardsRun(ac, a, findReply, infoReply) ==
    IF ~IsString(a.query)
    THEN Out(errorResult(<<"query is required and must be a string">>),
             << >>, << >>, << >>, 0)
    ELSE LET lim == SearchLimit(a.limit)
             f == FindNotes(ac, a.query.s, findReply)
         IN IF ~f.ok
            THEN Out(errorResult(<<"Failed to search cards: ">> \o f.err),
                     <<f.req>>, <<findReply>>, << >>, lim)
            ELSE IF Len(f.val) = 0
            THEN Out(textResult(<<"No cards found matching the query.">>),
                     <<f.req>>, <<findReply>>, << >>, lim)
            ELSE LET noteIDs == Truncate(f.val, lim)
                     g == GetNotesInfo(ac, noteIDs, infoReply)
                     reqs == <<f.req, g.req>>
                     reps == <<findReply, infoReply>>
                 IN IF ~g.ok
                    THEN Out(errorResult(<<"Failed to get note details: ">> \o g.err),
                             reqs, reps, << >>, lim)
                    ELSE IF Len(g.val) > Len(noteIDs)
                    \* noteIDs[i] with i past the end of noteIDs
                    THEN Out(panicResult(<<"panic: runtime error: index out of range">>),
                             reqs, reps, << >>, lim)
                    ELSE Out(textResult(SearchText(noteIDs,
                                                   SearchResults(noteIDs, g.val))),
                             reqs, reps, << >>, lim)

\* handleAddMedia storing whatever was decoded when decoding failed
AddMediaRunIgnoringDecodeError(ac, a, fs, reply) ==
    IF ~IsString(a.filename)
    THEN Out(errorResult(<<"filename is required and must be a string">>),
             << >>, << >>, << >>, 0)
    ELSE IF ~IsString(a.data)
    THEN Out(errorResult(<<"data is required and must be a string">>),
             << >>, << >>, << >>, 0)
    ELSE LET m == processMediaData(a.data.s, fs)
         IN IF ~m.ok
            THEN Out(errorResult(<<"Failed to process media data: ">> \o m.err),
                     << >>, << >>, m.fsops, 0)
            ELSE LET d == DecodeString(m.val)
                     r == StoreMediaFile(ac, a.filename.s, d.bytes, reply)
                 IN IF ~r.ok
                    THEN Out(errorResult(<<"Failed to store media file: ">>
                                         \o r.err),
                             <<r.req>>, <<reply>>, m.fsops, 0)
                    ELSE Out(textResult(<<"Successfully stored media file: ">>
                                        \o a.filename.s),
                             <<r.req>>, <<reply>>, m.fsops, 0)

\* handleAddMedia
AddMediaRun(ac, a, fs, reply) ==
    IF ~IsString(a.filename)
    THEN Out(errorResult(<<"filename is required and must be a string">>),
             << >>, << >>, << >>, 0)
    ELSE IF ~IsString(a.data)
    THEN Out(errorResult(<<"data is required and must be a string">>),
             << >>, << >>, << >>, 0)
    ELSE LET m == processMediaData(a.data.s, fs)
         IN IF ~m.ok
            THEN Out(errorResult(<<"Failed to process media data: ">> \o m.err),
                     << >>, << >>, m.fsops, 0)
            ELSE LET d == DecodeString(m.val)
                 IN IF ~d.ok
                    THEN Out(errorResult(<<"Failed to decode base64 data: ",
                                           "illegal base64 data">>),
                             << >>, << >>, m.fsops, 0)
                    ELSE LET r == StoreMediaFile(ac, a.filename.s, d.bytes, reply)
                         IN IF ~r.ok
                            THEN Out(errorResult(<<"Failed to store media file: ">>
                                                 \o r.err),
                                     <<r.req>>, <<reply>>, m.fsops, 0)
                            ELSE Out(textResult(<<"Successfully stored media file: ">>
                                                \o a.filename.s),
                                     <<r.req>>, <<reply>>, m.fsops, 0)

\* the slot condition without the test for empty data
SlotUsedAnyData(filename, data) ==
    IsString(filename) /\ filename.s # << >> /\ IsString(data)

\* a media slot of handleCreateCardWithMedia is used when filename and data
\* are both non-empty strings
SlotUsed(filename, data) ==
    IsString(filename) /\ filename.s # << >> /\ IsString(data) /\ data.s # << >>

\* MediaFile{Filename: filename, Data: data, Fields: fields}; Path is never
\* set, and Fields is nil where the literal leaves it out
MediaFile(filename, data, fields) ==
    [Filename |-> filename, Data |-> data, Fields |-> fields]

\* handleCreateCardWithMedia
CreateCardWithMediaRun(ac, a, fsAudio, fsImage, reply) ==
    IF ~IsString(a.deck_name)
    THEN Out(errorResult(<<"deck_name is required and must be a string">>),
             << >>, << >>, << >>, 0)
    ELSE IF ~IsString(a.front)
    THEN Out(errorResult(<<"front is required and must be a string">>),
             << >>, << >>, << >>, 0)
    ELSE IF ~IsString(a.back)
    THEN Out(errorResult(<<"back is required and must be a string">>),
             << >>, << >>, << >>, 0)
    ELSE LET note0 == NewNote(a.deck_name.s, ModelName(a.model_name),
                              a.front.s, a.back.s, ExtractTags(a.tags))
             useA == SlotUsed(a.audio_filename, a.audio_data)
             useI == SlotUsed(a.image_filename, a.image_data)
             pa == processMediaData(a.audio_data.s, fsAudio)
             pi == processMediaData(a.image_data.s, fsImage)
             opsA == IF useA THEN pa.fsops ELSE << >>
         IN IF useA /\ ~pa.ok
            THEN Out(errorResult(<<"Failed to process audio data: ">> \o pa.err),
                     << >>, << >>, opsA, 0)
            ELSE IF useI /\ ~pi.ok
            THEN Out(errorResult(<<"Failed to process image data: ">> \o pi.err),
                     << >>, << >>, opsA \o pi.fsops, 0)
            ELSE LET note == [note0 EXCEPT
                                !.Audio = IF useA
                                          THEN <<MediaFile(a.audio_filename.s, pa.val, << >>)>>
                                          ELSE << >>,
                                !.Picture = IF useI
                                            THEN <<MediaFile(a.image_filename.s, pi.val, << >>)>>
                                            ELSE << >>]
                     ops == opsA \o (IF useI THEN pi.fsops ELSE << >>)
                     r == AddNote(ac, note, reply)
                 IN IF ~r.ok
                    THEN Out(errorResult(<<"Failed to create card with media: ">>
                                         \o r.err),
                             <<r.req>>, <<reply>>, ops, 0)
                    ELSE Out(textResult(<<"Successfully created card with media, ID: ">>
                                        \o Itoa(r.val)),
                             <<r.req>>, <<reply>>, ops, 0)

\* handleAddMedia of main.go: the data string is decoded as it is
main_AddMediaRun(ac, a, reply) ==
    IF ~IsString(a.filename)
    THEN Out(errorResult(<<"filename is required and must be a string">>),
             << >>, << >>, << >>, 0)
    ELSE IF ~IsString(a.data)
    THEN Out(errorResult(<<"data is required and must be a string">>),
             << >>, << >>, << >>, 0)
    ELSE LET d == DecodeString(a.data.s)
         IN IF ~d.ok
            THEN Out(errorResult(<<"Failed to decode base64 data: ",
                                   "illegal base64 data">>),
                     << >>, << >>, << >>, 0)
            ELSE LET r == StoreMediaFile(ac, a.filename.s, d.bytes, reply)
                 IN IF ~r.ok
                    THEN Out(errorResult(<<"Failed to store media file: ">>
                                         \o r.err),
                             <<r.req>>, <<reply>>, << >>, 0)
                    ELSE Out(textResult(<<"Successfully stored media file: ">>
                                        \o a.filename.s),
                             <<r.req>>, <<reply>>, << >>, 0)

\* handleCreateCardWithMedia of main.go: the data strings go into the
\* descriptors as they are, each descriptor naming the field "Front"
main_CreateCardWithMediaRun(ac, a, reply) ==
    IF ~IsString(a.deck_name)
    THEN Out(errorResult(<<"deck_name is required and must be a string">>),
             << >>, << >>, << >>, 0)
    ELSE IF ~IsString(a.front)
    THEN Out(errorResult(<<"front is required and must be a string">>),
             << >>, << >>, << >>, 0)
    ELSE IF ~IsString(a.back)
    THEN Out(errorResult(<<"back is required and must be a string">>),
             << >>, << >>, << >>, 0)
    ELSE LET note0 == NewNote(a.deck_name.s, ModelName(a.model_name),
                              a.front.s, a.back.s, ExtractTags(a.tags))
             note == [note0 EXCEPT
                        !.Audio = IF SlotUsed(a.audio_filename, a.audio_data)
                                  THEN <<MediaFile(a.audio_filename.s,
                                                   a.audio_data.s, <<"Front">>)>>
                                  ELSE << >>,
                        !.Picture = IF SlotUsed(a.image_filename, a.image_data)
                                    THEN <<MediaFile(a.image_filename.s,
                                                     a.image_data.s, <<"Front">>)>>
                                    ELSE << >>]
             r == AddNote(ac, note, reply)
         IN IF ~r.ok
            THEN Out(errorResult(<<"Failed to create card with media: ">>
                                 \o r.err),
                     <<r.req>>, <<reply>>, << >>, 0)
            ELSE Out(textResult(<<"Successfully created card with media, ID: ">>
                                \o Itoa(r.val)),
                     <<r.req>>, <<reply>>, << >>, 0)

\* handleGetModels
GetModelsRun(ac, reply) ==
    LET r == GetModelNames(ac, reply)
    IN IF ~r.ok
       THEN Out(errorResult(<<"Failed to get models: ">> \o r.err),
                <<r.req>>, <<reply>>, << >>, 0)
       ELSE Out(textResult(<<"Available models (">> \o Itoa(Len(r.val))
                           \o <<"):\n">> \o Join(r.val, <<"\n">>)),
                <<r.req>>, <<reply>>, << >>, 0)

\* handleGetModelFields
GetModelFieldsRun(ac, a, reply) ==
    IF ~IsString(a.model_name)
    THEN Out(errorResult(<<"model_name is required and must be a string">>),
             << >>, << >>, << >>, 0)
    ELSE LET r == GetModelFieldNames(ac, a.model_name.s, reply)
         IN IF ~r.ok
            THEN Out(errorResult(<<"Failed to get model fields: ">> \o r.err),
                     <<r.req>>, <<reply>>, << >>, 0)
            ELSE Out(textResult(<<"Fields for model '">> \o a.model_name.s
                                \o <<"' (">> \o Itoa(Len(r.val)) \o <<"):\n">>
                                \o Join(r.val, <<"\n">>)),
                     <<r.req>>, <<reply>>, << >>, 0)

\* handleSync
SyncRun(ac, reply) ==
    LET r == Sync(ac, reply)
    IN IF ~r.ok
       THEN Out(errorResult(<<"Failed to sync: ">> \o r.err),
                <<r.req>>, <<reply>>, << >>, 0)
       ELSE Out(textResult(<<"Successfully triggered sync with AnkiWeb">>),
                <<r.req>>, <<reply>>, << >>, 0)

\* handlePing trying a failed Ping a second time
PingRunRetrying(ac, reply) ==
    LET r == Ping(ac, reply)
    IN IF ~r.ok
       THEN Out(errorResult(<<"AnkiConnect is not available: ">> \o r.err),
                <<r.req, r.req>>, <<reply, reply>>, << >>, 0)
       ELSE Out(textResult(<<"AnkiConnect is available and responding">>),
                <<r.req>>, <<reply>>, << >>, 0)

\* handlePing
PingRun(ac, reply) ==
    LET r == Ping(ac, reply)
    IN IF ~r.ok
       THEN Out(errorResult(<<"AnkiConnect is not available: ">> \o r.err),
                <<r.req>>, <<reply>>, << >>, 0)
       ELSE Out(textResult(<<"AnkiConnect is available and responding">>),
                <<r.req>>, <<reply>>, << >>, 0)

\* ------------------------------------------- the reduced server of main.go
\* formatContent with the sound reference on top and the image below
formatContentAudioFirst(text, imageName, audioName) ==
    (IF audioName # << >> THEN <<"<br><br>[sound:">> \o audioName \o <<"]">>
     ELSE << >>)
    \o text
    \o (IF imageName # << >>
        THEN <<"<img src=\"">> \o imageName \o <<"\"><br><br>">> ELSE << >>)

\* formatContent(text, imageName, audioName)
formatContent(text, imageName, audioName) ==
    (IF imageName # << >>
     THEN <<"<img src=\"">> \o imageName \o <<"\"><br><br>">> ELSE << >>)
    \o text
    \o (IF audioName # << >> THEN <<"<br><br>[sound:">> \o audioName \o <<"]">>
        ELSE << >>)

\* what one of the three media blocks of the reduced handleCreateCard
\* leaves: whether the call goes on, the error text if not, the name the
\* file was stored under, and the requests, replies and file reads made
Step(ok, err, name, reqs, reps, ops) ==
    [ok |-> ok, err |-> err, name |-> name, reqs |-> reqs, reps |-> reps,
     ops |-> ops]

\* the media block going on after a failed StoreMediaFile
reduced_MediaStepIgnoringStoreError(ac, x, what, fs, reply) ==
    IF ~(IsString(x) /\ x.s # << >>)
    THEN Step(TRUE, << >>, << >>, << >>, << >>, << >>)
    ELSE LET f == fileToBase64(x.s, fs)
             parts == Split(x.s, "/")
             name == parts[Len(parts)]
             d == DecodeString(f.val)
             r == StoreMediaFile(ac, name, d.bytes, reply)
         IN IF ~f.ok
            THEN Step(FALSE, <<"Failed to read ", what, " file: ">> \o f.err,
                      << >>, << >>, << >>, f.fsops)
            ELSE IF ~d.ok
            THEN Step(FALSE, <<"Failed to decode ", what, " data: ",
                               "illegal base64 data">>,
                      << >>, << >>, << >>, f.fsops)
            ELSE Step(TRUE, << >>, name, <<r.req>>, <<reply>>, f.fsops)

\* one media block of the reduced handleCreateCard (image, front audio or
\* back audio): for a path that is a non-empty string, read the file, take
\* the part after the last "/" as its name, decode, store
reduced_MediaStep(ac, x, what, fs, reply) ==
    IF ~(IsString(x) /\ x.s # << >>)
    THEN Step(TRUE, << >>, << >>, << >>, << >>, << >>)
    ELSE LET f == fileToBase64(x.s, fs)
             parts == Split(x.s, "/")
             name == parts[Len(parts)]
             d == DecodeString(f.val)
             r == StoreMediaFile(ac, name, d.bytes, reply)
         IN IF ~f.ok
            THEN Step(FALSE, <<"Failed to read ", what, " file: ">> \o f.err,
                      << >>, << >>, << >>, f.fsops)
            ELSE IF ~d.ok
            THEN Step(FALSE, <<"Failed to decode ", what, " data: ",
                               "illegal base64 data">>,
                      << >>, << >>, << >>, f.fsops)
            ELSE IF ~r.ok
            THEN Step(FALSE, <<"Failed to store ", what, ": ">> \o r.err,
                      << >>, <<r.req>>, <<reply>>, f.fsops)
            ELSE Step(TRUE, << >>, name, <<r.req>>, <<reply>>, f.fsops)

\* handleCreateCard of the reduced server; fs and rep hold the answers of
\* the filesystem and of the remote for image, front audio, back audio,
\* and rep[4] the answer to addNote
reduced_CreateCardRun(ac, a, fs, rep) ==
    IF ~IsString(a.deck)
    THEN Out(errorResult(<<"deck is required">>), << >>, << >>, << >>, 0)
    ELSE IF ~IsString(a.front)
    THEN Out(errorResult(<<"front is required">>), << >>, << >>, << >>, 0)
    ELSE IF ~IsString(a.back)
    THEN Out(errorResult(<<"back is required">>), << >>, << >>, << >>, 0)
    ELSE LET img == reduced_MediaStep(ac, a.image_path, "image", fs[1], rep[1])
             fa == reduced_MediaStep(ac, a.front_audio_path, "front audio",
                                     fs[2], rep[2])
             ba == reduced_MediaStep(ac, a.back_audio_path, "back audio",
                                     fs[3], rep[3])
         IN IF ~img.ok
            THEN Out(errorResult(img.err), img.reqs, img.reps, img.ops, 0)
            ELSE IF ~fa.ok
            THEN Out(errorResult(fa.err), img.reqs \o fa.reqs,
                     img.reps \o fa.reps, img.ops \o fa.ops, 0)
            ELSE IF ~ba.ok
            THEN Out(errorResult(ba.err), img.reqs \o fa.reqs \o ba.reqs,
                     img.reps \o fa.reps \o ba.reps,
                     img.ops \o fa.ops \o ba.ops, 0)
            ELSE LET note == NewNote(a.deck.s, <<"Basic">>,
                                     formatContent(a.front.s, img.name, fa.name),
                                     formatContent(a.back.s, << >>, ba.name),
                                     ExtractTags(a.tags))
                     r == AddNote(ac, note, rep[4])
                     reqs == img.reqs \o fa.reqs \o ba.reqs \o <<r.req>>
                     reps == img.reps \o fa.reps \o ba.reps \o <<rep[4]>>
                     ops == img.ops \o fa.ops \o ba.ops
                 IN IF ~r.ok
                    THEN Out(errorResult(<<"Failed to create card: ">> \o r.err),
                             reqs, reps, ops, 0)
                    ELSE Out(textResult(<<"Created card (ID: ">> \o Itoa(r.val)
                                        \o <<")">>),
                             reqs, reps, ops, 0)

\* handleListDecks of the reduced server
reduced_ListDecksRun(ac, reply) ==
    LET r == GetDeckNames(ac, reply)
    IN IF ~r.ok
       THEN Out(errorResult(<<"Failed to get decks: ">> \o r.err),
                <<r.req>>, <<reply>>, << >>, 0)
       ELSE Out(textResult(<<"Decks (">> \o Itoa(Len(r.val))
                           \o <<"):\n">> \o Join(r.val, <<"\n">>)),
                <<r.req>>, <<reply>>, << >>, 0)

\* handleCreateDeck of the reduced server
reduced_CreateDeckRun(ac, a, reply) ==
    IF ~IsString(a.name)
    THEN Out(errorResult(<<"name is required">>), << >>, << >>, << >>, 0)
    ELSE LET r == CreateDeck(ac, a.name.s, reply)
         IN IF ~r.ok
            THEN Out(errorResult(<<"Failed to create deck: ">> \o r.err),
                     <<r.req>>, <<reply>>, << >>, 0)
            ELSE Out(textResult(<<"Created deck: ">> \o a.name.s),
                     <<r.req>>, <<reply>>, << >>, 0)

\* ------------------------------------------------------------------ inputs
\* the values of ANKI_CONNECT_URL: unset or empty, or a custom URL
EnvURLs == {<< >>, <<"http://localhost:9999">>}

\* a required field: missing, a number, the empty string, a proper string
Required(s) == {Absent, Num(<<"5">>), Str(<< >>), Str(s)}
ModelVals == {Absent, Num(<<"5">>), Str(<< >>), Str(<<"Cloze">>)}
TagElems == {Str(<<"verb">>), Str(<<"noun">>), Num(<<"5">>)}
TagVals == {Absent, Str(<<"verb">>)} \cup {List(l) : l \in Chars(TagElems, MaxTags)}

\* limit strings are generated over this alphabet
LimitAlphabet == {"0", "1", "2", "+", "-", "x"}
LimitVals == {Absent, Num(<<"2">>)} \cup {Str(l) : l \in Chars(LimitAlphabet, MaxLimitLen)}

\* media data strings: with and without the data-URI marker, every tail of
\* commas, base64 characters and path separators, and some longer samples
MediaTails == Chars({",", "A", "/"}, MaxTail)
MediaSamples ==
    { <<"A", "A", "A", "A">>,
      <<"T", "Q", "=", "=">>,
      DataPrefix \o <<"i", "m", "a", "g", "e", "/", "p", "n", "g", ";">>
                 \o Base64Marker \o <<"A", "A", "A", "A">>,
      DataPrefix \o <<"a", ",", "b", ",", "c">>,
      <<"x", "/">> \o Base64Marker \o <<"A">>,
      <<"C", ":", "\\", "a">> }
MediaStrings == {p \o t : p \in {<< >>, DataPrefix}, t \in MediaTails}
                    \cup MediaSamples
MediaVals == {Absent, Num(<<"5">>)} \cup {Str(m) : m \in MediaStrings}
FewMediaVals ==
    {Absent, Str(<< >>), Str(<<"A", "A", "A", "A">>), Str(<<"/", "A">>),
     Str(DataPrefix), Str(DataPrefix \o <<",", "A">>)}
FilenameVals == {Absent, Num(<<"5">>), Str(<< >>), Str(<<"a.mp3">>)}

\* the filesystem's answers: no entry, an entry that cannot be read (a
\* directory), an empty file, a file of three bytes
FsAnswers ==
    {FsAnswer(FALSE, FALSE, << >>), FsAnswer(TRUE, FALSE, << >>),
     FsAnswer(TRUE, TRUE, << >>), FsAnswer(TRUE, TRUE, <<77, 97, 110>>)}

\* the remote's replies
Answer(result) == Reply("envelope", << >>, << >>, result)
TransportReplies ==
    {Reply("postfail", <<"connection refused">>, << >>, Null),
     Reply("readfail", <<"unexpected EOF">>, << >>, Null),
     Reply("badjson", <<"invalid character">>, << >>, Null)}
RemoteErrors ==
    {Reply("envelope", << >>, <<"deck not found">>, Null),
     Reply("envelope", << >>, <<"deck not found">>, Num(<<"7">>))}
FailReplies == TransportReplies \cup RemoteErrors

DiscardReplies == FailReplies \cup {Answer(Null), Answer(Num(<<"6">>))}
AddNoteReplies ==
    FailReplies \cup {Answer(Num(<<"7">>)), Answer(Num(<<"7", ".", "5">>)), Answer(Null),
                      Answer(Str(<<"7">>))}
NameElems == {Str(<<"Default">>), Str(<<"Spanish">>), Num(<<"1">>)}
NameListReplies ==
    FailReplies \cup {Answer(Null)}
        \cup {Answer(List(l)) : l \in Chars(NameElems, MaxNames)}

\* findNotes results: no match, some matches, more matches than the
\* default limit, a fractional number, an element that is not a number
IdList(ids) == List([i \in 1..Len(ids) |-> Num(Itoa(ids[i]))])
FindReplies ==
    FailReplies
        \cup {Answer(Null), Answer(List(<<Num(<<"7">>), Str(<<"8">>)>>)),
              Answer(List(<<Num(<<"7", ".", "5">>)>>))}
        \cup {Answer(IdList(ids)) :
                ids \in {<< >>, <<7>>, <<7, 8>>, <<9, 8, 7>>,
                         [i \in 1..(DefaultLimit + 1) |-> i]}}

\* per-note detail objects: well formed, without "fields", with malformed
\* Front/Back/tags, and an element that is not an object
GoodNote ==
    Obj(<<Member("noteId", Num(<<"7">>)),
          Member("fields",
                 Obj(<<Member("Front", Obj(<<Member("value", Str(<<"Hola">>))>>)),
                       Member("Back", Obj(<<Member("value", Str(<<"Hello">>))>>))>>)),
          Member("tags", List(<<Str(<<"verb">>), Num(<<"1">>), Str(<<"noun">>)>>))>>)
NoFieldsNote ==
    Obj(<<Member("noteId", Num(<<"7">>)),
          Member("tags", List(<<Str(<<"verb">>)>>))>>)
BadPartsNote ==
    Obj(<<Member("fields",
                 Obj(<<Member("Front", Str(<<"Hola">>)),
                       Member("Back", Obj(<<Member("value", Num(<<"1">>))>>))>>)),
          Member("tags", Str(<<"verb">>))>>)
NoteElems == {GoodNote, NoFieldsNote, BadPartsNote, Null}
\* a reply to notesInfo for n requested notes: failures, every short list
\* of detail objects, and n - 1, n and n + 1 well-formed objects
InfoReplies(n) ==
    FailReplies \cup {Answer(Null)}
        \cup {Answer(List(l)) : l \in Chars(NoteElems, MaxInfo)}
        \cup {Answer(List([i \in 1..k |-> GoodNote])) : k \in {n - 1, n, n + 1}}

\* ------------------------------------------------------------------- state
\* the two full-featured servers of the repository: unnamed/part_000, which
\* resolves media data, and the first server of main.go, which does not
Builds == {"part_000", "main"}

VARIABLES
    build,     \* which of the servers is running
    env,       \* the value of ANKI_CONNECT_URL when the process started
    server,    \* the AnkiMCPServer: its ankiClient with URL, Version, Timeout
    phase,     \* "idle": waiting for a tool call; "done": a handler has run
    tool,      \* the tool of the last call
    args,      \* the argument bag of the last call
    requests,  \* the requests the last call handed to the transport, in order
    replies,   \* what the remote did with each of them
    fsops,     \* the filesystem calls of the last call, in order
    limit,     \* the local variable limit of handleSearchCards
    result,    \* the CallToolResult returned, or the panic that ended the call
    calls      \* the handlers running at the same time, each with its locals

vars == <<build, env, server, phase, tool, args, requests, replies, fsops, limit,
          result, calls>>

\* a handler that is not running
FreeCall ==
    [pc |-> "free", tool |-> "none", args |-> << >>, requests |-> << >>,
     replies |-> << >>, result |-> noResult]

Init ==
    /\ build \in Builds
    /\ env \in EnvURLs
    /\ server = NewAnkiMCPServer(env)
    /\ phase = "idle"
    /\ tool = "none"
    /\ args = << >>
    /\ requests = << >>
    /\ replies = << >>
    /\ fsops = << >>
    /\ limit = 0
    /\ result = noResult
    /\ calls = [c \in 1..MaxCalls |-> FreeCall]

\* a handler called with argument bag a has run and left out
Return(t, a, out) ==
    /\ phase' = "done"
    /\ tool' = t
    /\ args' = a
    /\ requests' = out.requests
    /\ replies' = out.replies
    /\ fsops' = out.fsops
    /\ limit' = out.limit
    /\ result' = out.result
    /\ UNCHANGED <<build, env, server, calls>>

\* ----------------------------------------------------------------- actions
\* tool create_card
handleCreateCard ==
    /\ phase = "idle"
    /\ \E a \in [deck_name : Required(<<"Spanish">>), front : Required(<<"Hola">>),
                 back : Required(<<"Hello">>),
                 model_name : {Absent, Str(<<"Cloze">>)},
                 tags : {Absent, List(<<Str(<<"verb">>)>>)}]
              \cup [deck_name : {Str(<< >>), Str(<<"Spanish">>)},
                    front : {Str(<< >>), Str(<<"Hola">>)},
                    back : {Str(<< >>), Str(<<"Hello">>)},
                    model_name : ModelVals, tags : TagVals] :
         \E reply \in AddNoteReplies :
            Return("create_card", a, CreateCardRun(server.ankiClient, a, reply))

\* tool list_decks
handleListDecks ==
    /\ phase = "idle"
    /\ \E reply \in NameListReplies :
          Return("list_decks", << >>, ListDecksRun(server.ankiClient, reply))

\* tool create_deck
handleCreateDeck ==
    /\ phase = "idle"
    /\ \E a \in [deck_name : Required(<<"Spanish">>)] :
         \E reply \in DiscardReplies :
            Return("create_deck", a, CreateDeckRun(server.ankiClient, a, reply))

\* tool search_cards
handleSearchCards ==
    /\ phase = "idle"
    /\ \E a \in [query : Required(<<"deck:Spanish">>), limit : LimitVals] :
         \E findReply \in FindReplies :
            LET f == FindNotes(server.ankiClient, << >>, findReply)
                n == IF f.ok THEN Len(Truncate(f.val, SearchLimit(a.limit))) ELSE 0
            IN \E infoReply \in InfoReplies(n) :
                  Return("search_cards", a,
                         SearchCardsRun(server.ankiClient, a, findReply, infoReply))

\* tool add_media
handleAddMedia ==
    /\ phase = "idle"
    /\ build = "part_000"
    /\ \E a \in [filename : FilenameVals, data : MediaVals] :
         \E fs \in FsAnswers, reply \in DiscardReplies :
            Return("add_media", a, AddMediaRun(server.ankiClient, a, fs, reply))

\* tool create_card_with_media
handleCreateCardWithMedia ==
    /\ phase = "idle"
    /\ build = "part_000"
    /\ \E a \in [deck_name : Required(<<"Spanish">>), front : Required(<<"Hola">>),
                 back : Required(<<"Hello">>),
                 model_name : {Absent}, tags : {Absent},
                 audio_filename : {Absent, Str(<<"a.mp3">>)},
                 audio_data : {Absent, Str(<<"/", "A">>)},
                 image_filename : {Absent}, image_data : {Absent}]
              \cup [deck_name : {Str(<<"Spanish">>)}, front : {Str(<<"Hola">>)},
                    back : {Str(<<"Hello">>)},
                    model_name : {Absent, Str(<<"Cloze">>)},
                    tags : {List(<<Str(<<"verb">>), Num(<<"5">>)>>)},
                    audio_filename : FilenameVals, audio_data : MediaVals,
                    image_filename : {Absent, Str(<< >>), Str(<<"d.png">>)},
                    image_data : FewMediaVals] :
         \E fsAudio \in FsAnswers,
            fsImage \in {FsAnswer(FALSE, FALSE, << >>), FsAnswer(TRUE, FALSE, << >>),
                         FsAnswer(TRUE, TRUE, <<77>>)} :
            \E reply \in {Reply("postfail", <<"connection refused">>, << >>, Null),
                          Reply("envelope", << >>, <<"deck not found">>, Null),
                          Answer(Num(<<"7">>))} :
               Return("create_card_with_media", a,
                      CreateCardWithMediaRun(server.ankiClient, a, fsAudio,
                                             fsImage, reply))

\* tool add_media of main.go
main_handleAddMedia ==
    /\ phase = "idle"
    /\ build = "main"
    /\ \E a \in [filename : FilenameVals, data : MediaVals] :
         \E reply \in DiscardReplies :
            Return("add_media", a, main_AddMediaRun(server.ankiClient, a, reply))

\* tool create_card_with_media of main.go
main_handleCreateCardWithMedia ==
    /\ phase = "idle"
    /\ build = "main"
    /\ \E a \in [deck_name : Required(<<"Spanish">>), front : Required(<<"Hola">>),
                 back : Required(<<"Hello">>),
                 model_name : {Absent}, tags : {Absent},
                 audio_filename : {Absent, Str(<<"a.mp3">>)},
                 audio_data : {Absent, Str(<<"/", "A">>)},
                 image_filename : {Absent}, image_data : {Absent}]
              \cup [deck_name : {Str(<<"Spanish">>)}, front : {Str(<<"Hola">>)},
                    back : {Str(<<"Hello">>)},
                    model_name : {Absent, Str(<<"Cloze">>)},
                    tags : {List(<<Str(<<"verb">>), Num(<<"5">>)>>)},
                    audio_filename : FilenameVals, audio_data : MediaVals,
                    image_filename : {Absent, Str(<< >>), Str(<<"d.png">>)},
                    image_data : FewMediaVals] :
         \E reply \in {Reply("postfail", <<"connection refused">>, << >>, Null),
                       Reply("envelope", << >>, <<"deck not found">>, Null),
                       Answer(Num(<<"7">>))} :
            Return("create_card_with_media", a,
                   main_CreateCardWithMediaRun(server.ankiClient, a, reply))

\* tool get_models
handleGetModels ==
    /\ phase = "idle"
    /\ \E reply \in NameListReplies :
          Return("get_models", << >>, GetModelsRun(server.ankiClient, reply))

\* tool get_model_fields
handleGetModelFields ==
    /\ phase = "idle"
    /\ \E a \in [model_name : Required(<<"Basic">>)] :
         \E reply \in NameListReplies :
            Return("get_model_fields", a,
                   GetModelFieldsRun(server.ankiClient, a, reply))

\* tool sync
handleSync ==
    /\ phase = "idle"
    /\ \E reply \in DiscardReplies :
          Return("sync", << >>, SyncRun(server.ankiClient, reply))

\* tool ping
handlePing ==
    /\ phase = "idle"
    /\ \E reply \in DiscardReplies :
          Return("ping", << >>, PingRun(server.ankiClient, reply))

\* server.ServeStdio: the result goes back to the caller and the server
\* waits for the next call; nothing of the call is kept.  After a panic
\* the process is gone and there is no next call.
ServeStdio ==
    /\ phase = "done"
    /\ ~result.fault
    /\ phase' = "idle"
    /\ tool' = "none"
    /\ args' = << >>
    /\ requests' = << >>
    /\ replies' = << >>
    /\ fsops' = << >>
    /\ limit' = 0
    /\ result' = noResult
    /\ UNCHANGED <<build, env, server, calls>>

Next ==
    \/ handleCreateCard
    \/ handleListDecks
    \/ handleCreateDeck
    \/ handleSearchCards
    \/ handleAddMedia
    \/ handleCreateCardWithMedia
    \/ main_handleAddMedia
    \/ main_handleCreateCardWithMedia
    \/ handleGetModels
    \/ handleGetModelFields
    \/ handleSync
    \/ handlePing
    \/ ServeStdio

Spec == Init /\ [][Next]_vars

\* ------------------------------------------- the reduced server of main.go
\* a path argument whose file would be named n: missing, a number, empty,
\* a bare name, a name in a directory, a path that ends in a separator
PathVals(n) ==
    {Absent, Num(<<"5">>), Str(<< >>), Str(<<n>>), Str(<<"m", "/", n>>),
     Str(<<"m", "/">>)}

\* the filesystem's answers for a path argument.  os.ReadFile never
\* succeeds on a path that ends in a separator: such a path names a
\* directory or nothing.  An argument that is no path is never looked up.
FsFor(x) ==
    IF ~(IsString(x) /\ x.s # << >>) THEN {FsAnswer(FALSE, FALSE, << >>)}
    ELSE IF x.s[Len(x.s)] = "/"
    THEN {FsAnswer(FALSE, FALSE, << >>), FsAnswer(TRUE, FALSE, << >>)}
    ELSE {FsAnswer(FALSE, FALSE, << >>), FsAnswer(TRUE, TRUE, << >>),
          FsAnswer(TRUE, TRUE, <<77, 97, 110>>)}

\* the remote's replies to the storeMediaFile of a path argument; an
\* argument that is no path is never stored
StoreRepliesFor(x) ==
    IF ~(IsString(x) /\ x.s # << >>) \/ x.s[Len(x.s)] = "/" THEN {Answer(Null)}
    ELSE {Reply("postfail", <<"connection refused">>, << >>, Null),
          Reply("envelope", << >>, <<"deck not found">>, Null), Answer(Null)}

ReducedInit ==
    /\ build = "reduced"
    /\ env \in EnvURLs
    /\ server = NewAnkiMCPServer(env)
    /\ phase = "idle"
    /\ tool = "none"
    /\ args = << >>
    /\ requests = << >>
    /\ replies = << >>
    /\ fsops = << >>
    /\ limit = 0
    /\ result = noResult
    /\ calls = [c \in 1..MaxCalls |-> FreeCall]

\* tool create_card of the reduced server
reduced_handleCreateCard ==
    /\ phase = "idle"
    /\ build = "reduced"
    /\ \E a \in [deck : Required(<<"Spanish">>), front : Required(<<"Hola">>),
                 back : Required(<<"Hello">>), tags : {Absent},
                 image_path : {Absent, Str(<<"i">>)},
                 front_audio_path : {Absent}, back_audio_path : {Absent}]
              \cup [deck : {Str(<<"Spanish">>)},
                    front : {Str(<< >>), Str(<<"Hola">>)},
                    back : {Str(<<"Hello">>)},
                    tags : {Absent, List(<<Str(<<"verb">>), Num(<<"5">>)>>)},
                    image_path : PathVals("i"),
                    front_audio_path : PathVals("f"),
                    back_audio_path : PathVals("b")] :
         \E fs \in FsFor(a.image_path) \X FsFor(a.front_audio_path)
                       \X FsFor(a.back_audio_path) :
            \E rep \in StoreRepliesFor(a.image_path)
                          \X StoreRepliesFor(a.front_audio_path)
                          \X StoreRepliesFor(a.back_audio_path)
                          \X {Reply("postfail", <<"connection refused">>,
                                     << >>, Null),
                              Answer(Num(<<"7">>))} :
               Return("create_card", a,
                      reduced_CreateCardRun(server.ankiClient, a, fs, rep))

\* tool list_decks of the reduced server
reduced_handleListDecks ==
    /\ phase = "idle"
    /\ build = "reduced"
    /\ \E reply \in NameListReplies :
          Return("list_decks", << >>,
                 reduced_ListDecksRun(server.ankiClient, reply))

\* tool create_deck of the reduced server
reduced_handleCreateDeck ==
    /\ phase = "idle"
    /\ build = "reduced"
    /\ \E a \in [name : Required(<<"Spanish">>)] :
         \E reply \in DiscardReplies :
            Return("create_deck", a,
                   reduced_CreateDeckRun(server.ankiClient, a, reply))

ReducedNext ==
    \/ reduced_handleCreateCard
    \/ reduced_handleListDecks
    \/ reduced_handleCreateDeck
    \/ ServeStdio

ReducedSpec == ReducedInit /\ [][ReducedNext]_vars

\* -------------------------------------------- handlers running concurrently
\* The handlers share the AnkiMCPServer and its AnkiConnect and nothing
\* else.  A handler runs from its start to its first client.Post, from a
\* reply to its next client.Post, and from its last reply to its return;
\* between these steps the handlers of other calls run.

\* the AnkiConnect with a field written by invoke
AnkiConnectAfterInvokeCounting(ac) == [ac EXCEPT !.Version = ac.Version + 1]

\* the fields of the AnkiConnect after invoke has returned: invoke reads
\* ac.Version and ac.URL and assigns to no field of its receiver
AnkiConnectAfterInvoke(ac) == ac

\* the handler of tool t run on arguments a with the replies rs
ToolRun(ac, t, a, rs) ==
    CASE t = "ping" -> PingRun(ac, rs[1])
      [] t = "create_deck" -> CreateDeckRun(ac, a, rs[1])
      [] t = "search_cards" -> SearchCardsRun(ac, a, rs[1], rs[2])

\* the replies a handler has, followed by those it has not seen yet; what
\* it does before a reply arrives does not depend on that reply
Ahead(rs) == rs \o <<Answer(Null), Answer(Null)>>

\* the replies the remote gives to the k-th request of a call of tool t
ConcurrentReplies(t, k) ==
    IF t # "search_cards" THEN DiscardReplies
    ELSE IF k = 1
    THEN {Reply("postfail", <<"connection refused">>, << >>, Null),
          Answer(IdList(<< >>)), Answer(IdList(<<7>>))}
    ELSE {Reply("envelope", << >>, <<"deck not found">>, Null),
          Answer(List(<<GoodNote>>)), Answer(List(<<GoodNote, GoodNote>>))}

\* no handler has panicked: a panic in one goroutine ends the process
Running == \A c \in 1..MaxCalls : ~calls[c].result.fault

\* the handler of tool t starts on arguments a in slot c and runs until it
\* returns or hands its first request to the transport
Start(c, t, a) ==
    /\ calls[c].pc = "free"
    /\ LET out == ToolRun(server.ankiClient, t, a, Ahead(<< >>))
       IN calls' = [calls EXCEPT ![c] =
             IF out.requests = << >>
             THEN [pc |-> "done", tool |-> t, args |-> a, requests |-> << >>,
                   replies |-> << >>, result |-> out.result]
             ELSE [pc |-> "await", tool |-> t, args |-> a,
                   requests |-> <<out.requests[1]>>, replies |-> << >>,
                   result |-> noResult]]
    /\ UNCHANGED <<build, env, server, phase, tool, args, requests, replies,
                   fsops, limit, result>>

\* a call of tool ping arrives
StartPing ==
    /\ Running
    /\ \E c \in 1..MaxCalls : Start(c, "ping", << >>)

\* a call of tool create_deck arrives
StartCreateDeck ==
    /\ Running
    /\ \E c \in 1..MaxCalls : \E a \in [deck_name : Required(<<"Spanish">>)] :
          Start(c, "create_deck", a)

\* a call of tool search_cards arrives
StartSearchCards ==
    /\ Running
    /\ \E c \in 1..MaxCalls :
          \E a \in [query : Required(<<"deck:Spanish">>), limit : {Absent}] :
             Start(c, "search_cards", a)

\* the invoke of the handler in slot c returns with a reply; the handler
\* runs on until it returns or hands its next request to the transport
InvokeReturns ==
    /\ Running
    /\ \E c \in 1..MaxCalls :
       /\ calls[c].pc = "await"
       /\ \E reply \in ConcurrentReplies(calls[c].tool, Len(calls[c].requests)) :
             LET rs == calls[c].replies \o <<reply>>
                 ac == AnkiConnectAfterInvoke(server.ankiClient)
                 out == ToolRun(ac, calls[c].tool, calls[c].args, Ahead(rs))
             IN /\ server' = [server EXCEPT !.ankiClient = ac]
                /\ calls' = [calls EXCEPT ![c] =
                      IF Len(out.requests) > Len(rs)
                      THEN [@ EXCEPT !.replies = rs,
                                     !.requests = @ \o <<out.requests[Len(rs) + 1]>>]
                      ELSE [@ EXCEPT !.pc = "done", !.replies = rs,
                                     !.result = out.result]]
       /\ UNCHANGED <<build, env, phase, tool, args, requests, replies, fsops,
                      limit, result>>

\* the result of the handler in slot c goes back to its caller
Respond ==
    /\ Running
    /\ \E c \in 1..MaxCalls :
       /\ calls[c].pc = "done"
       /\ calls' = [calls EXCEPT ![c] = FreeCall]
       /\ UNCHANGED <<build, env, server, phase, tool, args, requests, replies,
                      fsops, limit, result>>

ConcurrentNext ==
    \/ StartPing
    \/ StartCreateDeck
    \/ StartSearchCards
    \/ InvokeReturns
    \/ Respond

ConcurrentSpec == Init /\ [][ConcurrentNext]_vars

\* ------------------------------------------------------------------ claims
\* the fields each tool requires
RequiredFields ==
    [create_card |-> {"deck_name", "front", "back"},
     create_card_with_media |-> {"deck_name", "front", "back"},
     create_deck |-> {"deck_name"},
     search_cards |-> {"query"},
     add_media |-> {"filename", "data"},
     get_model_fields |-> {"model_name"}]

\* some required field of the last call is missing or is not a string
RequiredMissing ==
    /\ phase = "done"
    /\ tool \in DOMAIN RequiredFields
    /\ \E f \in RequiredFields[tool] : args[f].t # "str"

\* C1: a call of a tool with required fields in which a required field is
\* missing or not a string ends with an error-flagged result, and no request
\* is handed to the RPC client during the call.
C1_RequiredRejectedBeforeRPC ==
    RequiredMissing =>
        /\ ~result.fault
        /\ result.isError
        /\ requests = << >>

\* C1 witness: add_media was called with a filename but numeric data and
\* has been rejected.
C1_Witness ==
    /\ RequiredMissing
    /\ tool = "add_media"
    /\ args.filename.t = "str"
    /\ args.data.t = "num"
    /\ result.isError
    /\ requests = << >>

\* the remote failed the i-th request of the last call
ReplyFailed(i) ==
    replies[i].kind # "envelope" \/ replies[i].error # << >>

\* C2: every call returns a well-formed result and never raises a fault;
\* a failed operation (a rejected argument, a failed request) gives a result
\* flagged as an error whose text starts with "Error: ", and only a failed
\* operation is flagged.
C2_AlwaysWellFormedResult ==
    phase = "done" =>
        /\ ~result.fault
        /\ result.text # << >>
        /\ (RequiredMissing \/ \E i \in 1..Len(replies) : ReplyFailed(i))
              => result.isError
        /\ result.isError <=> Head(result.text) = "Error: "

\* C3: when the reply to a request of the call carries a non-empty error
\* field, the result of the call is error-flagged and its text contains the
\* remote message verbatim.
C3_RemoteErrorRendered ==
    phase = "done" =>
        \A i \in 1..Len(replies) :
            (replies[i].kind = "envelope" /\ replies[i].error # << >>) =>
                /\ ~result.fault
                /\ result.isError
                /\ \E k \in 1..Len(result.text) :
                      SubSeq(result.text, k, k + Len(replies[i].error) - 1)
                          = replies[i].error

\* C3 witness: createDeck was answered {"result": null, "error": "deck not
\* found"} and create_deck returned an error result.
C3_Witness ==
    /\ phase = "done"
    /\ tool = "create_deck"
    /\ Len(replies) = 1
    /\ replies[1] = Reply("envelope", << >>, <<"deck not found">>, Null)
    /\ requests[1].action = "createDeck"
    /\ result.isError

\* the last call was create_card and its arguments passed validation
CreateCardValid ==
    /\ phase = "done"
    /\ tool = "create_card"
    /\ \A f \in RequiredFields[tool] : args[f].t = "str"

\* C4: a create_card call that passes validation submits to addNote one
\* note with exactly the fields Front and Back, holding the front and back
\* strings supplied, and with the deck name supplied.
C4_NoteHasFrontAndBack ==
    CreateCardValid =>
        /\ Len(requests) = 1
        /\ requests[1].action = "addNote"
        /\ DOMAIN requests[1].params.note.Fields = {"Front", "Back"}
        /\ requests[1].params.note.Fields.Front = args.front.s
        /\ requests[1].params.note.Fields.Back = args.back.s
        /\ requests[1].params.note.DeckName = args.deck_name.s

\* C4 witness: a card with front "Hola" and back "" went to addNote.
C4_Witness ==
    /\ CreateCardValid
    /\ args.front.s = <<"Hola">>
    /\ args.back.s = << >>
    /\ Len(requests) = 1
    /\ requests[1].params.note.Fields.Front = <<"Hola">>

RECURSIVE OnlyStrings(_)
\* the payloads of the string elements of a list of values, in order
OnlyStrings(l) ==
    IF l = << >> THEN << >>
    ELSE (IF Head(l).t = "str" THEN <<Head(l).s>> ELSE << >>)
         \o OnlyStrings(Tail(l))

\* C5 as claimed: the tags of the note submitted by a valid create_card
\* call equal the input tag list, element for element.
C5_TagsEqualInputList ==
    (CreateCardValid /\ args.tags.t = "list" /\ requests # << >>) =>
        /\ Len(requests[1].params.note.Tags) = Len(args.tags.l)
        /\ \A i \in 1..Len(args.tags.l) :
              /\ args.tags.l[i].t = "str"
              /\ args.tags.l[i].s = requests[1].params.note.Tags[i]

\* C5 amended: the tags of the note submitted by a valid create_card call
\* are the string elements of the input tag list, in the order and with the
\* multiplicity of the input; elements that are not strings are dropped,
\* and a tags value that is not a list gives no tags.
C5_TagsAreStringElements ==
    CreateCardValid =>
        /\ Len(requests) = 1
        /\ requests[1].params.note.Tags =
              IF args.tags.t = "list" THEN OnlyStrings(args.tags.l) ELSE << >>

\* C5 witness: the tags ["noun", "verb"] went to addNote in that order.
C5_Witness ==
    /\ CreateCardValid
    /\ args.tags = List(<<Str(<<"noun">>), Str(<<"verb">>)>>)
    /\ Len(requests) = 1
    /\ requests[1].params.note.Tags = << <<"noun">>, <<"verb">> >>

\* the last call was create_card or create_card_with_media and sent addNote
NoteSubmitted ==
    /\ phase = "done"
    /\ tool \in {"create_card", "create_card_with_media"}
    /\ Len(requests) = 1
    /\ requests[1].action = "addNote"

\* C6 as claimed: every note submitted by create_card and by
\* create_card_with_media tells the remote to accept duplicates.
C6_DuplicatesAccepted ==
    NoteSubmitted => requests[1].params.note.Options.allowDuplicate = TRUE

\* C6 amended: every note submitted by create_card and by
\* create_card_with_media carries the single option allowDuplicate = false,
\* so duplicate detection stays on and the remote rejects a duplicate.
C6_DuplicatesRejected ==
    NoteSubmitted =>
        /\ DOMAIN requests[1].params.note.Options = {"allowDuplicate"}
        /\ requests[1].params.note.Options.allowDuplicate = FALSE

\* C6 witness: create_card_with_media submitted a note with an audio file.
C6_Witness ==
    /\ NoteSubmitted
    /\ tool = "create_card_with_media"
    /\ Len(requests[1].params.note.Audio) = 1
    /\ ~result.isError

RECURSIVE Pow10(_)
Pow10(k) == IF k = 0 THEN 1 ELSE 10 * Pow10(k - 1)
RECURSIVE PlaceValue(_, _)
\* the number written by the digits ds[i..], each digit times its place
PlaceValue(ds, i) ==
    IF i > Len(ds) THEN 0
    ELSE ((CHOOSE d \in 0..9 : Digits[d + 1] = ds[i]) * Pow10(Len(ds) - i))
         + PlaceValue(ds, i + 1)
\* the digits of a numeral of a positive integer: an optional "+", then
\* decimal digits that are not all zero
PositiveDigits(x) ==
    IF x.t = "str" /\ x.s # << >> /\ x.s[1] = "+" THEN Tail(x.s)
    ELSE IF x.t = "str" THEN x.s ELSE << >>
ParsesToPositive(x) ==
    LET ds == PositiveDigits(x)
    IN /\ \A i \in 1..Len(ds) : ds[i] \in {"0", "1", "2", "3", "4", "5", "6", "7", "8", "9"}
       /\ \E i \in 1..Len(ds) : ds[i] # "0"

\* the last call was search_cards with a string query
SearchValid ==
    /\ phase = "done"
    /\ tool = "search_cards"
    /\ args.query.t = "str"

\* C7: the effective limit of search_cards is the parsed value when the
\* limit argument is a string that parses to a positive integer, and 10 in
\* every other case (absent, not a string, empty, unparseable, <= 0); it is
\* the number of identifiers notesInfo is asked for when more were found.
C7_EffectiveLimit ==
    SearchValid =>
        /\ limit = IF ParsesToPositive(args.limit)
                   THEN PlaceValue(PositiveDigits(args.limit), 1) ELSE 10
        /\ Len(requests) = 2 =>
              Len(requests[2].params.notes) =
                  IF Len(replies[1].result.l) > limit
                  THEN limit ELSE Len(replies[1].result.l)

\* C7 witness: limit "+2" cut three matches down to two; the other half of
\* the claim is witnessed by C7_DefaultWitness.
C7_Witness ==
    /\ SearchValid
    /\ args.limit = Str(<<"+", "2">>)
    /\ limit = 2
    /\ Len(requests) = 2
    /\ Len(replies[1].result.l) = 3
    /\ requests[2].params.notes = <<9, 8>>

\* limit "-1" left the default in force and eleven matches were cut to ten
C7_DefaultWitness ==
    /\ SearchValid
    /\ args.limit = Str(<<"-", "1">>)
    /\ limit = 10
    /\ Len(requests) = 2
    /\ Len(replies[1].result.l) = 11
    /\ Len(requests[2].params.notes) = 10

\* search_cards was given a limit that parses to a positive integer, found
\* more identifiers than that, and asked for details
SearchTruncated ==
    /\ SearchValid
    /\ ParsesToPositive(args.limit)
    /\ Len(replies) = 2
    /\ limit < Len(replies[1].result.l)

\* the number between "Found " and " cards (showing " in a search result
FoundCount(text) ==
    LET k == CHOOSE j \in 1..Len(text) : text[j] = " cards (showing "
    IN PlaceValue(SubSeq(text, 2, k - 1), 1)

\* C8: when the limit is smaller than the number of identifiers findNotes
\* returned, the "Found" count of the rendered text is the full number of
\* identifiers returned, not the limit.
C8_FoundIsFullCount ==
    (SearchTruncated /\ ~result.fault /\ ~result.isError) =>
        /\ Head(result.text) = "Found "
        /\ FoundCount(result.text) = Len(replies[1].result.l)

\* the number of note blocks in a search result
BlockCount(text) == Cardinality({j \in 1..Len(text) : text[j] = "ID: "})

\* GetNotesInfo succeeded: the reply is a list of objects
InfoSucceeded ==
    /\ Len(replies) = 2
    /\ replies[2].kind = "envelope"
    /\ replies[2].error = << >>
    /\ replies[2].result.t = "list"
    /\ \A i \in 1..Len(replies[2].result.l) : replies[2].result.l[i].t = "obj"

\* C9 as claimed: when the limit L is smaller than the number of
\* identifiers found and getNotesInfo succeeds, exactly L note blocks are
\* rendered.
C9_ExactlyLimitBlocks ==
    (SearchTruncated /\ InfoSucceeded) =>
        /\ ~result.fault
        /\ ~result.isError
        /\ BlockCount(result.text) = limit

\* C9 amended: when the limit L is smaller than the number of identifiers
\* found and getNotesInfo succeeds with at most L detail objects, one block
\* is rendered for each detail object that has a "fields" object (exactly L
\* blocks when the reply holds L such objects); a reply of more than L
\* objects ends the call in a panic without a result.
C9_BlocksAreNotesWithFields ==
    (SearchTruncated /\ InfoSucceeded) =>
        LET info == replies[2].result.l
        IN IF Len(info) > limit
           THEN result.fault
           ELSE /\ ~result.fault
                /\ ~result.isError
                /\ BlockCount(result.text) =
                      Cardinality({i \in 1..Len(info) :
                                     \E m \in 1..Len(info[i].o) :
                                        /\ info[i].o[m].k = "fields"
                                        /\ info[i].o[m].val.t = "obj"})
                /\ (Len(info) = limit
                    /\ \A i \in 1..Len(info) :
                          \E m \in 1..Len(info[i].o) :
                             /\ info[i].o[m].k = "fields"
                             /\ info[i].o[m].val.t = "obj")
                      => BlockCount(result.text) = limit

\* C9 witness: limit "2", three matches, two well-formed detail objects and
\* two blocks rendered.
C9_Witness ==
    /\ SearchTruncated
    /\ InfoSucceeded
    /\ limit = 2
    /\ Len(replies[1].result.l) = 3
    /\ replies[2].result.l = <<GoodNote, GoodNote>>
    /\ BlockCount(result.text) = 2

\* a string value that starts with the data-URI marker "data:"
IsDataURI(x) ==
    /\ x.t = "str"
    /\ Len(x.s) >= 5
    /\ x.s[1] = "d" /\ x.s[2] = "a" /\ x.s[3] = "t" /\ x.s[4] = "a" /\ x.s[5] = ":"
CommaCount(str) == Cardinality({i \in 1..Len(str) : str[i] = ","})
\* what follows the first comma of a string that has one
AfterFirstComma(str) ==
    LET i == CHOOSE j \in 1..Len(str) :
                  str[j] = "," /\ \A k \in 1..(j - 1) : str[k] # ","
    IN [k \in 1..(Len(str) - i) |-> str[i + k]]

\* create_card_with_media passed validation and resolved a data URI given
\* for the audio slot
AudioURIResolved ==
    /\ phase = "done"
    /\ build = "part_000"
    /\ tool = "create_card_with_media"
    /\ \A f \in RequiredFields[tool] : args[f].t = "str"
    /\ args.audio_filename.t = "str"
    /\ args.audio_filename.s # << >>
    /\ IsDataURI(args.audio_data)
\* add_media passed validation and resolved a data URI
MediaURIResolved ==
    /\ phase = "done"
    /\ build = "part_000"
    /\ tool = "add_media"
    /\ args.filename.t = "str"
    /\ IsDataURI(args.data)
ResolutionFailed ==
    /\ result.isError
    /\ Len(result.text) >= 2
    /\ result.text[2] \in {"Failed to process audio data: ",
                           "Failed to process media data: "}

\* C10 as claimed: resolution of a string that starts with "data:" and has
\* at least one comma succeeds and gives what follows the first comma, also
\* when there are further commas.
C10_AfterFirstComma ==
    /\ (AudioURIResolved /\ CommaCount(args.audio_data.s) >= 1) =>
          /\ ~ResolutionFailed
          /\ Len(requests) = 1 =>
                requests[1].params.note.Audio =
                    <<[Filename |-> args.audio_filename.s,
                       Data |-> AfterFirstComma(args.audio_data.s),
                       Fields |-> << >>]>>
    /\ (MediaURIResolved /\ CommaCount(args.data.s) >= 1) => ~ResolutionFailed

\* C10 amended: resolution of a string that starts with "data:" and has
\* exactly one comma succeeds and gives what follows that comma;
\* with two or more commas it fails with "invalid data URI format", the call
\* ends with an error result and nothing is sent.
C10_AfterTheOnlyComma ==
    /\ (AudioURIResolved /\ CommaCount(args.audio_data.s) = 1) =>
          /\ ~ResolutionFailed
          /\ Len(requests) = 1 =>
                requests[1].params.note.Audio =
                    <<[Filename |-> args.audio_filename.s,
                       Data |-> AfterFirstComma(args.audio_data.s),
                       Fields |-> << >>]>>
    /\ (AudioURIResolved /\ CommaCount(args.audio_data.s) >= 2) =>
          /\ result = errorResult(<<"Failed to process audio data: ",
                                    "invalid data URI format">>)
          /\ requests = << >>
    /\ (MediaURIResolved /\ CommaCount(args.data.s) = 1) => ~ResolutionFailed
    /\ (MediaURIResolved /\ CommaCount(args.data.s) >= 2) =>
          /\ result = errorResult(<<"Failed to process media data: ",
                                    "invalid data URI format">>)
          /\ requests = << >>

\* C10 witness: data:image/png;base64,AAAA went to addNote as AAAA.
C10_Witness ==
    /\ AudioURIResolved
    /\ args.audio_data.s =
          <<"d", "a", "t", "a", ":", "i", "m", "a", "g", "e", "/", "p", "n",
            "g", ";", "b", "a", "s", "e", "6", "4", ",", "A", "A", "A", "A">>
    /\ Len(requests) = 1
    /\ requests[1].params.note.Audio[1].Data = <<"A", "A", "A", "A">>

\* create_card_with_media passed validation and resolved a data URI given
\* for the image slot
ImageURIResolved ==
    /\ phase = "done"
    /\ build = "part_000"
    /\ tool = "create_card_with_media"
    /\ \A f \in RequiredFields[tool] : args[f].t = "str"
    /\ args.image_filename.t = "str"
    /\ args.image_filename.s # << >>
    /\ IsDataURI(args.image_data)
\* the call ended on the failed resolution of the audio data
AudioResolutionFailed ==
    /\ result.isError
    /\ Len(result.text) >= 2
    /\ result.text[2] = "Failed to process audio data: "

\* C11: resolution of a string that starts with "data:" and has no comma
\* fails with the format error without a filesystem call; add_media and
\* create_card_with_media then return an error-flagged result and send no
\* request.
C11_NoCommaIsFormatError ==
    /\ (MediaURIResolved /\ CommaCount(args.data.s) = 0) =>
          /\ result = [fault |-> FALSE, isError |-> TRUE,
                       text |-> <<"Error: ", "Failed to process media data: ",
                                  "invalid data URI format">>]
          /\ requests = << >>
          /\ fsops = << >>
    /\ (AudioURIResolved /\ CommaCount(args.audio_data.s) = 0) =>
          /\ result = [fault |-> FALSE, isError |-> TRUE,
                       text |-> <<"Error: ", "Failed to process audio data: ",
                                  "invalid data URI format">>]
          /\ requests = << >>
          /\ fsops = << >>
    /\ (ImageURIResolved /\ CommaCount(args.image_data.s) = 0
          /\ ~AudioResolutionFailed) =>
          /\ result = [fault |-> FALSE, isError |-> TRUE,
                       text |-> <<"Error: ", "Failed to process image data: ",
                                  "invalid data URI format">>]
          /\ requests = << >>
          /\ \A i \in 1..Len(fsops) : fsops[i].path # args.image_data.s

\* C11 witness: add_media was given "data:A" and ended on the format error
\* with nothing sent.
C11_Witness ==
    /\ MediaURIResolved
    /\ args.data.s = <<"d", "a", "t", "a", ":", "A">>
    /\ result.isError
    /\ result.text[3] = "invalid data URI format"
    /\ requests = << >>
    /\ fsops = << >>

\* create_card_with_media passed validation and resolved the audio data,
\* which is not a data URI, without reading a file: the string has no path
\* separator or holds "base64,", or os.Stat found no entry of that name
AudioPassedThrough ==
    /\ phase = "done"
    /\ build = "part_000"
    /\ tool = "create_card_with_media"
    /\ \A f \in RequiredFields[tool] : args[f].t = "str"
    /\ args.audio_filename.t = "str"
    /\ args.audio_filename.s # << >>
    /\ args.audio_data.t = "str"
    /\ args.audio_data.s # << >>
    /\ ~IsDataURI(args.audio_data)
    /\ ~(Len(fsops) >= 2 /\ fsops[1].path = args.audio_data.s
                         /\ fsops[2].op = "ReadFile")
\* os.Stat was called on the audio data
AudioStatted == fsops # << >> /\ fsops[1].path = args.audio_data.s

\* C12: for a string that neither starts with "data:" nor names an existing
\* filesystem entry through a path separator, resolution gives the string
\* itself, and resolving that result again gives it once more.
C12_PassThroughIdempotent ==
    AudioPassedThrough =>
        /\ ~AudioResolutionFailed
        /\ Len(requests) = 1 =>
              requests[1].params.note.Audio[1].Data = args.audio_data.s
        /\ \A fs \in FsAnswers :
              (AudioStatted => ~fs.stat) =>
                 LET once == processMediaData(args.audio_data.s, fs)
                     twice == processMediaData(once.val, fs)
                 IN /\ once.ok /\ once.val = args.audio_data.s
                    /\ twice.ok /\ twice.val = once.val

\* C12 witness: the audio data "/A" named no file and went to addNote as
\* "/A".
C12_Witness ==
    /\ AudioPassedThrough
    /\ args.audio_data.s = <<"/", "A">>
    /\ fsops = <<[op |-> "Stat", path |-> <<"/", "A">>]>>
    /\ Len(requests) = 1
    /\ requests[1].params.note.Audio[1].Data = <<"/", "A">>

\* deckNames was answered with a list of strings
DeckNamesListed ==
    /\ phase = "done"
    /\ tool = "list_decks"
    /\ Len(replies) = 1
    /\ replies[1].kind = "envelope"
    /\ replies[1].error = << >>
    /\ replies[1].result.t = "list"
    /\ \A i \in 1..Len(replies[1].result.l) : replies[1].result.l[i].t = "str"

\* C13: when deckNames returns a list of n strings, list_decks returns a
\* result that is not an error and whose text is "Available decks (n):", a
\* newline, and the names in the order received with a newline between two
\* names.
C13_DeckListRendered ==
    DeckNamesListed =>
        LET names == replies[1].result.l
            n == Len(names)
            text == result.text
        IN /\ ~result.fault
           /\ ~result.isError
           /\ Len(text) = 3 + (IF n = 0 THEN 0 ELSE (2 * n) - 1)
           /\ text[1] = "Available decks ("
           /\ PlaceValue(<<text[2]>>, 1) = n
           /\ text[3] = "):\n"
           /\ \A i \in 1..n : text[2 + (2 * i)] = names[i].s[1]
           /\ \A i \in 1..(n - 1) : text[3 + (2 * i)] = "\n"

\* C13 witness: ["Default", "Spanish"] was rendered as
\* "Available decks (2):\nDefault\nSpanish".
C13_Witness ==
    /\ DeckNamesListed
    /\ replies[1].result.l = <<Str(<<"Default">>), Str(<<"Spanish">>)>>
    /\ result.text = <<"Available decks (", "2", "):\n", "Default", "\n", "Spanish">>

\* the error of a failed call as the handler rendered it: what follows
\* "Error: " and the handler's own prefix
RenderedError == SubSeq(result.text, 3, Len(result.text))

\* C14: invoke puts every call into exactly one class, in this order: a
\* transport failure (POST or body read), a decode failure, a remote error
\* (error field not empty; its message is carried and a result in the same
\* envelope is dropped), and otherwise success with the envelope's result;
\* a result is returned only when the error field is empty.
C14_InvokeClassifies ==
    (phase = "done" /\ ~result.fault) =>
        /\ \A i \in 1..Len(replies) :
              /\ replies[i].kind = "postfail" =>
                    /\ result.isError
                    /\ RenderedError = <<"failed to connect to AnkiConnect: ">>
                                           \o replies[i].detail
              /\ replies[i].kind = "readfail" =>
                    /\ result.isError
                    /\ RenderedError = <<"failed to read response: ">>
                                           \o replies[i].detail
              /\ replies[i].kind = "badjson" =>
                    /\ result.isError
                    /\ RenderedError = <<"failed to unmarshal response: ">>
                                           \o replies[i].detail
              /\ (replies[i].kind = "envelope" /\ replies[i].error # << >>) =>
                    /\ result.isError
                    /\ RenderedError = <<"AnkiConnect error: ">> \o replies[i].error
              /\ (replies[i].kind = "envelope" /\ replies[i].error = << >>
                    /\ i = Len(replies)) =>
                    \/ ~result.isError
                    \/ RenderedError[1] \notin
                          {"failed to connect to AnkiConnect: ",
                           "failed to read response: ",
                           "failed to unmarshal response: ", "AnkiConnect error: "}
        /\ (tool = "create_card" /\ Len(replies) = 1
              /\ replies[1].kind = "envelope" /\ replies[1].error = << >>
              /\ replies[1].result.t = "num") =>
              /\ ~result.isError
              /\ result.text[1] = "Successfully created card with ID: "
              /\ result.text[2] = replies[1].result.s[1]
        /\ (~result.isError /\ replies # << >>) =>
              \A i \in 1..Len(replies) :
                 replies[i].kind = "envelope" /\ replies[i].error = << >>

\* C14 witness: addNote was answered {"result": 7, "error": "deck not
\* found"} and create_card reported the remote error, not the result.
C14_Witness ==
    /\ phase = "done"
    /\ tool = "create_card"
    /\ replies = <<Reply("envelope", << >>, <<"deck not found">>, Num(<<"7">>))>>
    /\ result.text = <<"Error: ", "Failed to create card: ",
                       "AnkiConnect error: ", "deck not found">>

\* the actions a call of each tool requests, in order, once its arguments
\* are accepted
WrapperCalls ==
    [create_card |-> {<<"addNote">>},
     list_decks |-> {<<"deckNames">>},
     create_deck |-> {<<"createDeck">>},
     search_cards |-> {<<"findNotes">>, <<"findNotes", "notesInfo">>},
     add_media |-> {<<"storeMediaFile">>},
     create_card_with_media |-> {<<"addNote">>},
     get_models |-> {<<"modelNames">>},
     get_model_fields |-> {<<"modelFieldNames">>},
     sync |-> {<<"sync">>},
     ping |-> {<<"version">>}]

\* C15: nothing is retried.  Every wrapper call of a tool call sends one
\* request, answered once; a failed request is the last one of its call, is
\* not sent again, and is reported once, in the error result of that call;
\* nothing of a call is left when the next one starts.
C15_NoRetry ==
    /\ phase = "idle" => (requests = << >> /\ replies = << >> /\ result = noResult)
    /\ phase = "done" =>
        /\ Len(requests) = Len(replies)
        /\ requests # << >> =>
              [i \in 1..Len(requests) |-> requests[i].action] \in WrapperCalls[tool]
        /\ (requests = << >> /\ ~result.isError) =>
              tool \in {"create_card", "create_card_with_media", "create_deck",
                        "search_cards", "add_media", "get_model_fields"}
        /\ \A i \in 1..Len(replies) :
              ReplyFailed(i) =>
                 /\ i = Len(replies)
                 /\ ~result.fault
                 /\ result.isError
                 /\ Cardinality({k \in 1..Len(result.text) :
                                   result.text[k] = "Error: "}) = 1
                 /\ Cardinality({k \in 1..Len(result.text) :
                        result.text[k] \in
                           {"failed to connect to AnkiConnect: ",
                            "failed to read response: ",
                            "failed to unmarshal response: ",
                            "AnkiConnect error: "}}) = 1

\* C15 witness: the one request of ping failed in transport and ping
\* returned the error.
C15_Witness ==
    /\ phase = "done"
    /\ tool = "ping"
    /\ Len(requests) = 1
    /\ requests[1].action = "version"
    /\ replies[1].kind = "postfail"
    /\ result.isError

\* the arguments of a create_card_with_media call passed validation
WithMediaValid ==
    /\ phase = "done"
    /\ tool = "create_card_with_media"
    /\ \A f \in RequiredFields[tool] : args[f].t = "str"
\* a value that is not a string, or is the empty string
NoText(x) == x.t # "str" \/ x.s = << >>

\* C16: an optional field of the wrong type counts as absent and is never
\* an error: a model_name that is not a non-empty string gives note type
\* "Basic", a tags value that is not a list gives no tags, a limit that is
\* not a string gives limit 10, and a media filename or payload that is not
\* a non-empty string gives no descriptor for its slot.
C16_WrongTypeIsAbsent ==
    /\ (CreateCardValid \/ WithMediaValid) =>
          /\ Len(requests) = 1 =>
                /\ NoText(args.model_name) =>
                      requests[1].params.note.ModelName = <<"Basic">>
                /\ args.tags.t # "list" => requests[1].params.note.Tags = << >>
          /\ result.isError =>
                result.text[2] \in {"Failed to create card: ",
                                    "Failed to create card with media: ",
                                    "Failed to process audio data: ",
                                    "Failed to process image data: "}
    /\ CreateCardValid => Len(requests) = 1
    /\ (SearchValid /\ args.limit.t # "str") =>
          /\ limit = 10
          /\ Len(requests) >= 1
    /\ WithMediaValid =>
          /\ (NoText(args.audio_filename) \/ NoText(args.audio_data)) =>
                /\ ~AudioResolutionFailed
                /\ Len(requests) = 1 => requests[1].params.note.Audio = << >>
          /\ (NoText(args.image_filename) \/ NoText(args.image_data)) =>
                /\ ~(result.isError
                       /\ result.text[2] = "Failed to process image data: ")
                /\ Len(requests) = 1 => requests[1].params.note.Picture = << >>
          /\ ((NoText(args.audio_filename) \/ NoText(args.audio_data))
                /\ (NoText(args.image_filename) \/ NoText(args.image_data))) =>
                /\ Len(requests) = 1
                /\ fsops = << >>

\* C16 witness: create_card with a numeric model_name and a string for
\* tags created a "Basic" note without tags.
C16_Witness ==
    /\ CreateCardValid
    /\ args.model_name.t = "num"
    /\ args.tags.t = "str"
    /\ Len(requests) = 1
    /\ requests[1].params.note.ModelName = <<"Basic">>
    /\ requests[1].params.note.Tags = << >>
    /\ ~result.isError

\* a string that is not empty
HasText(x) == x.t = "str" /\ x.s # << >>

\* C17: in create_card_with_media the submitted note has a descriptor for a
\* slot exactly when the filename and the payload of that slot are both
\* non-empty strings, whatever the arguments of the other slot; it has at
\* most one audio and at most one picture descriptor.
C17_SlotsIndependent ==
    (WithMediaValid /\ Len(requests) = 1) =>
        LET note == requests[1].params.note
        IN /\ Len(note.Audio) <= 1
           /\ Len(note.Picture) <= 1
           /\ Len(note.Audio) = 1 <=>
                 (HasText(args.audio_filename) /\ HasText(args.audio_data))
           /\ Len(note.Picture) = 1 <=>
                 (HasText(args.image_filename) /\ HasText(args.image_data))
           /\ Len(note.Audio) = 1 =>
                 note.Audio[1].Filename = args.audio_filename.s
           /\ Len(note.Picture) = 1 =>
                 note.Picture[1].Filename = args.image_filename.s

\* C17 witness: an audio file was attached although the image slot had a
\* filename and no payload.
C17_Witness ==
    /\ WithMediaValid
    /\ Len(requests) = 1
    /\ HasText(args.audio_filename) /\ HasText(args.audio_data)
    /\ HasText(args.image_filename) /\ args.image_data.t = "absent"
    /\ Len(requests[1].params.note.Audio) = 1
    /\ requests[1].params.note.Picture = << >>

\* C18: every media descriptor of the note create_card_with_media submits
\* carries the resolved payload: for a data URI what follows its comma,
\* never the URI as it was given.
C18_DescriptorsResolved ==
    (WithMediaValid /\ Len(requests) = 1) =>
        LET note == requests[1].params.note
        IN /\ (Len(note.Audio) = 1 /\ IsDataURI(args.audio_data)) =>
                 /\ note.Audio[1].Data # args.audio_data.s
                 /\ CommaCount(args.audio_data.s) >= 1 =>
                       note.Audio[1].Data = AfterFirstComma(args.audio_data.s)
           /\ (Len(note.Picture) = 1 /\ IsDataURI(args.image_data)) =>
                 /\ note.Picture[1].Data # args.image_data.s
                 /\ CommaCount(args.image_data.s) >= 1 =>
                       note.Picture[1].Data = AfterFirstComma(args.image_data.s)

\* search_cards got as many detail objects as it asked for, or fewer
InfoFits ==
    /\ SearchValid
    /\ InfoSucceeded
    /\ Len(replies[2].result.l) <= Len(requests[2].params.notes)
\* the member of a JSON object with a key; Null when there is none
MemberOf(x, key) ==
    IF x.t = "obj" /\ \E i \in 1..Len(x.o) : x.o[i].k = key
    THEN x.o[CHOOSE i \in 1..Len(x.o) : x.o[i].k = key].val
    ELSE Null
\* the text a detail object holds for a field: fields.<name>.value when
\* that is a string
PartText(note, name) ==
    LET v == MemberOf(MemberOf(MemberOf(note, "fields"), name), "value")
    IN IF v.t = "str" THEN v.s ELSE << >>
\* the k-th note block of a search result: from its "ID: " to the next
\* separator or the end of the text
Block(text, k) ==
    LET starts == {j \in 1..Len(text) : text[j] = "ID: "}
        from == CHOOSE j \in starts :
                    Cardinality({i \in starts : i < j}) = k - 1
        ends == {j \in from..Len(text) : text[j] = "\n\n---\n\n"}
        to == IF ends = {} THEN Len(text)
              ELSE (CHOOSE j \in ends : \A i \in ends : j <= i) - 1
    IN SubSeq(text, from, to)
\* what a block holds between one label and the next label or its end
Part(block, label) ==
    LET at == CHOOSE j \in 1..Len(block) : block[j] = label
        after == {j \in (at + 1)..Len(block) :
                    block[j] \in {"\nFront: ", "\nBack: ", "\nTags: "}}
        to == IF after = {} THEN Len(block)
              ELSE (CHOOSE j \in after : \A i \in after : j <= i) - 1
    IN SubSeq(block, at + 1, to)

\* C19 as claimed: a detail object with missing or malformed sub-fields
\* never fails the call and never removes its note from the output, so
\* every detail object of the reply has its block.
C19_MalformedStillRendered ==
    (InfoFits /\ Len(replies[2].result.l) = Len(requests[2].params.notes)) =>
        /\ ~result.fault
        /\ ~result.isError
        /\ BlockCount(result.text) = Len(replies[2].result.l)

\* C19 amended: with no more detail objects than identifiers asked for, the
\* call never fails; a detail object without a "fields" object is left out
\* of the output, and every other one is rendered in order, Front and Back
\* empty unless they are objects with a string value, and the Tags line
\* holding the string elements of a tags list and left out when there are
\* none; more detail objects than identifiers asked for end in a panic.
C19_MalformedDegrades ==
    (SearchValid /\ InfoSucceeded) =>
        LET info == replies[2].result.l
            kept == SelectSeq(info, LAMBDA x : MemberOf(x, "fields").t = "obj")
        IN IF Len(info) > Len(requests[2].params.notes)
           THEN result.fault
           ELSE /\ ~result.fault
                /\ ~result.isError
                /\ BlockCount(result.text) = Len(kept)
                /\ \A k \in 1..Len(kept) :
                      LET block == Block(result.text, k)
                          tags == MemberOf(kept[k], "tags")
                          strs == IF tags.t = "list" THEN OnlyStrings(tags.l)
                                  ELSE << >>
                      IN /\ Part(block, "\nFront: ") = PartText(kept[k], "Front")
                         /\ Part(block, "\nBack: ") = PartText(kept[k], "Back")
                         /\ IF strs = << >>
                            THEN \A j \in 1..Len(block) : block[j] # "\nTags: "
                            ELSE Part(block, "\nTags: ") =
                                   [j \in 1..((2 * Len(strs)) - 1) |->
                                      IF j % 2 = 1 THEN strs[(j + 1) \div 2][1]
                                      ELSE ", "]

\* C19 witness: a detail object whose Front is a string, whose Back value is
\* a number and whose tags is a string was rendered with all three empty.
C19_Witness ==
    /\ InfoFits
    /\ replies[2].result.l = <<BadPartsNote>>
    /\ result.text = <<"Found ", "1", " cards (showing ", "1", "):\n\n",
                       "ID: ", "7", "\nFront: ", "\nBack: ">>

\* the result of the i-th reply has the shape the wrapper of the i-th
\* request narrows to
ShapeExpected(i) ==
    LET r == replies[i].result
        act == requests[i].action
    IN CASE act \in {"deckNames", "modelNames", "modelFieldNames"} ->
              r.t = "list" /\ \A j \in 1..Len(r.l) : r.l[j].t = "str"
         [] act = "findNotes" ->
              r.t = "list" /\ \A j \in 1..Len(r.l) : r.l[j].t = "num"
         [] act = "notesInfo" ->
              r.t = "list" /\ \A j \in 1..Len(r.l) : r.l[j].t = "obj"
         [] act = "addNote" -> r.t = "num"
         [] OTHER -> TRUE
\* the shape errors of the wrappers
ShapeErrors ==
    { <<"unexpected response type">>, <<"unexpected ", "deck name", " type">>,
      <<"unexpected ", "model name", " type">>,
      <<"unexpected ", "field name", " type">>,
      <<"unexpected note ID type">>, <<"unexpected note type">> }

\* C20: a typed wrapper returns a value only for a result of exactly the
\* expected shape.  A list wrapper (deck names, model names, field names,
\* note ids, notes info) fails as a whole when the result is not a list or
\* one element has the wrong type, addNote fails when the result is not a
\* number (null included); the failure is a shape error and nothing of the
\* result is returned.
C20_ShapeOrFail ==
    (phase = "done" /\ ~result.fault) =>
        /\ \A i \in 1..Len(replies) :
              (replies[i].kind = "envelope" /\ replies[i].error = << >>
                 /\ ~ShapeExpected(i)) =>
                 /\ i = Len(replies)
                 /\ result.isError
                 /\ RenderedError \in ShapeErrors
                 /\ \A j \in 1..Len(replies[i].result.l) :
                       replies[i].result.l[j].t = "str" =>
                          \A k \in 1..Len(result.text) :
                             <<result.text[k]>> # replies[i].result.l[j].s
        /\ (~result.isError /\ requests # << >>) =>
              \A i \in 1..Len(replies) : ShapeExpected(i)

\* C20 witness: deckNames was answered ["Default", 1] and list_decks
\* returned the shape error without the name Default.
C20_Witness ==
    /\ phase = "done"
    /\ tool = "list_decks"
    /\ replies[1].kind = "envelope"
    /\ replies[1].error = << >>
    /\ replies[1].result = List(<<Str(<<"Default">>), Num(<<"1">>)>>)
    /\ result.text = <<"Error: ", "Failed to get deck names: ",
                       "unexpected ", "deck name", " type">>

\* C22: every constructor gives a complete endpoint configuration.
\* NewAnkiConnect gives http://localhost:8765 and version 6,
\* NewAnkiConnectWithURL(u) gives u with the same version and the 30-second
\* timeout, and the client of the server has the value of ANKI_CONNECT_URL
\* when that is not empty and the default URL when it is unset or empty.
C22_ConstructorsInitialise ==
    /\ server.ankiClient.URL =
          IF env = << >> THEN <<"http://localhost:8765">> ELSE env
    /\ server.ankiClient.Version = 6
    /\ server.ankiClient.Timeout = 30
    /\ DOMAIN server.ankiClient = {"URL", "Version", "Timeout"}
    /\ NewAnkiConnect =
          [URL |-> <<"http://localhost:8765">>, Version |-> 6, Timeout |-> 30]
    /\ NewAnkiConnectWithURL(env) = [URL |-> env, Version |-> 6, Timeout |-> 30]

\* C22 witness: the server was started with ANKI_CONNECT_URL set to
\* http://localhost:9999 and its requests go there.
C22_Witness ==
    /\ env = <<"http://localhost:9999">>
    /\ server.ankiClient.URL = <<"http://localhost:9999">>
    /\ phase = "done"
    /\ Len(requests) = 1
    /\ requests[1].url = <<"http://localhost:9999">>

\* the wrappers that pass nil for params
Parameterless == {"version", "deckNames", "modelNames", "sync"}
\* the actions of the client
SupportedActions ==
    {"version", "deckNames", "createDeck", "deleteDecks", "addNote",
     "findNotes", "updateNoteFields", "storeMediaFile", "sync", "notesInfo",
     "modelNames", "modelFieldNames"}
\* a request of the protocol: version 6, a supported action, and params
\* left out exactly for the parameterless actions
WellFormedRequest(req) ==
    /\ req.version = 6
    /\ req.action \in SupportedActions
    /\ req.hasParams <=> req.action \notin Parameterless

\* C23: every request sent carries version 6 and a supported action, each
\* wrapper its own, and params is left out exactly for the parameterless
\* wrappers (ping, list decks, get model names, sync).
C23_RequestsWellFormed ==
    /\ \A i \in 1..Len(requests) :
          /\ WellFormedRequest(requests[i])
          /\ <<requests[i].action>> \in
                UNION {{<<w[j]>> : j \in 1..Len(w)} : w \in WrapperCalls[tool]}
          /\ requests[i].url = server.ankiClient.URL
    /\ \A reply \in DiscardReplies :
          LET d == DeleteDeck(server.ankiClient, <<"Spanish">>, reply).req
              u == UpdateNoteFields(server.ankiClient, 7,
                                    [Front |-> <<"Hola">>], reply).req
          IN /\ WellFormedRequest(d) /\ d.action = "deleteDecks"
             /\ WellFormedRequest(u) /\ u.action = "updateNoteFields"

\* C23 witness: sync sent {"action": "sync", "version": 6} without params.
C23_Witness ==
    /\ phase = "done"
    /\ tool = "sync"
    /\ Len(requests) = 1
    /\ requests[1].action = "sync"
    /\ requests[1].version = 6
    /\ ~requests[1].hasParams

\* the integer a JSON number literal is cut down to: the digits before "."
IntPart(lit) ==
    LET dots == {j \in 1..Len(lit) : lit[j] = "."}
        to == IF dots = {} THEN Len(lit) ELSE (CHOOSE j \in dots : TRUE) - 1
    IN PlaceValue(SubSeq(lit, 1, to), 1)
\* findNotes was answered with a list of numbers
FindSucceeded ==
    /\ replies # << >>
    /\ replies[1].kind = "envelope"
    /\ replies[1].error = << >>
    /\ replies[1].result.t = "list"
    /\ \A j \in 1..Len(replies[1].result.l) : replies[1].result.l[j].t = "num"

\* C25: search_cards issues findNotes first and once; it issues notesInfo
\* at most once, only after findNotes succeeded with a list that is not
\* empty, for exactly the first min(limit, match count) identifiers in the
\* order of the findNotes result; when findNotes fails or finds nothing,
\* notesInfo is not issued, and finding nothing gives the text "No cards
\* found matching the query." without the error flag.
C25_SearchRpcOrder ==
    SearchValid =>
        /\ Len(requests) \in {1, 2}
        /\ requests[1].action = "findNotes"
        /\ requests[1].params.query = args.query.s
        /\ Len(requests) = 2 <=>
              (FindSucceeded /\ replies[1].result.l # << >>)
        /\ Len(requests) = 2 =>
              LET found == replies[1].result.l
                  notes == requests[2].params.notes
              IN /\ requests[2].action = "notesInfo"
                 /\ Len(notes) = IF limit < Len(found) THEN limit ELSE Len(found)
                 /\ \A j \in 1..Len(notes) : notes[j] = IntPart(found[j].s)
        /\ (FindSucceeded /\ replies[1].result.l = << >>) =>
              result = [fault |-> FALSE, isError |-> FALSE,
                        text |-> <<"No cards found matching the query.">>]
        /\ ~FindSucceeded => (result.isError /\ ~result.fault)

\* C25 witness: with limit "2" and the matches 9, 8, 7, notesInfo was asked
\* for 9 and 8.
C25_Witness ==
    /\ SearchValid
    /\ args.limit = Str(<<"2">>)
    /\ Len(requests) = 2
    /\ replies[1].result = IdList(<<9, 8, 7>>)
    /\ requests[2].action = "notesInfo"
    /\ requests[2].params.notes = <<9, 8>>

\* base64 with padding: quanta of four characters of the alphabet, "=" only
\* as the last character or the last two
WellFormedBase64(p) ==
    /\ Len(p) % 4 = 0
    /\ \A i \in 1..Len(p) :
          \/ p[i] \in {B64Chars[c] : c \in 1..64}
          \/ /\ p[i] = "="
             /\ i >= Len(p) - 1
             /\ p[Len(p)] = "="
\* add_media was called with a string filename and a string payload
AddMediaValid ==
    /\ phase = "done"
    /\ tool = "add_media"
    /\ args.filename.t = "str"
    /\ args.data.t = "str"
\* resolution gave a payload without reading a file
PayloadKnown ==
    /\ AddMediaValid
    /\ \A i \in 1..Len(fsops) : fsops[i].op # "ReadFile"
    /\ (build = "part_000" /\ IsDataURI(args.data)) =>
          CommaCount(args.data.s) = 1
\* that payload: the data itself, or what follows the comma of a data URI
\* where data URIs are resolved
Payload ==
    IF build = "part_000" /\ IsDataURI(args.data)
    THEN AfterFirstComma(args.data.s) ELSE args.data.s

\* C26: when the resolved payload of add_media is not valid base64 the call
\* ends with an error-flagged result and storeMediaFile is not issued;
\* storeMediaFile is issued only after both required fields were
\* validated, resolution succeeded and decoding succeeded.
C26_DecodeBeforeStore ==
    /\ (phase = "done" /\ tool = "add_media" /\ requests # << >>) =>
          /\ AddMediaValid
          /\ Len(requests) = 1
          /\ requests[1].action = "storeMediaFile"
          /\ requests[1].params.filename = args.filename.s
          /\ WellFormedBase64(requests[1].params.data)
          /\ PayloadKnown => WellFormedBase64(Payload)
          /\ ~PayloadKnown => fsops[Len(fsops)].op = "ReadFile"
    /\ (PayloadKnown /\ ~WellFormedBase64(Payload)) =>
          /\ result.isError
          /\ ~result.fault
          /\ result.text[2] = "Failed to decode base64 data: "
          /\ requests = << >>
    /\ (PayloadKnown /\ WellFormedBase64(Payload)) => Len(requests) = 1

\* C26 witness: the payload "A" is not base64; add_media returned the
\* decoding error and sent nothing.
C26_Witness ==
    /\ AddMediaValid
    /\ args.data.s = <<"A">>
    /\ result.isError
    /\ result.text[2] = "Failed to decode base64 data: "
    /\ requests = << >>

\* the number between " cards (showing " and "):" in a search result
ShowingCount(text) ==
    LET k == CHOOSE j \in 1..Len(text) : text[j] = " cards (showing "
        e == CHOOSE j \in 1..Len(text) : text[j] = "):\n\n"
    IN PlaceValue(SubSeq(text, k + 1, e - 1), 1)

\* C28: each block of a search result pairs the i-th detail object with
\* the i-th retained identifier and the identifier list is never indexed
\* out of range: whatever the length of the notesInfo reply, the call
\* completes with a result whose "showing" count is the number of blocks
\* and is at most the number of retained identifiers.
C28_NeverOutOfRange ==
    (SearchValid /\ InfoSucceeded) =>
        /\ ~result.fault
        /\ ~result.isError
        /\ ShowingCount(result.text) = BlockCount(result.text)
        /\ BlockCount(result.text) <= Len(requests[2].params.notes)

\* create_card_with_media passed validation and resolved audio data that
\* is not a data URI
AudioPlainResolved ==
    /\ WithMediaValid
    /\ build = "part_000"
    /\ HasText(args.audio_filename)
    /\ HasText(args.audio_data)
    /\ ~IsDataURI(args.audio_data)
\* the filesystem calls made for the audio data
AudioOps ==
    IF fsops # << >> /\ fsops[1].path = args.audio_data.s
    THEN IF Len(fsops) >= 2 /\ fsops[2].op = "ReadFile"
         THEN SubSeq(fsops, 1, 2) ELSE SubSeq(fsops, 1, 1)
    ELSE << >>
\* the string looks like a path: a separator and no "base64,"
LooksLikePath(str) ==
    /\ \E i \in 1..Len(str) : str[i] \in {"/", "\\"}
    /\ ~\E i \in 1..(Len(str) - 6) : SubSeq(str, i, i + 6) = Base64Marker

\* C29 as claimed: resolution of a string that does not start with "data:"
\* never fails, an existing entry that cannot be read passing the string
\* on unchanged.
C29_PlainNeverFails ==
    AudioPlainResolved => ~AudioResolutionFailed

\* C29 amended: resolution of a string that does not start with "data:"
\* gives the string unchanged unless it looks like a path and an entry of
\* that name exists; then the file is read and its bytes are encoded, and
\* when the entry cannot be read (a directory) resolution fails with
\* "failed to read file <path>: ..." and the call ends with an error-flagged
\* result and no request.
C29_PlainFailsOnlyOnRead ==
    AudioPlainResolved =>
        LET path == args.audio_data.s
            stat == [op |-> "Stat", path |-> path]
            read == [op |-> "ReadFile", path |-> path]
        IN /\ AudioOps # << >> <=> LooksLikePath(path)
           /\ AudioOps \in {<< >>, <<stat>>, <<stat, read>>}
           /\ AudioResolutionFailed =>
                 /\ AudioOps = <<stat, read>>
                 /\ SubSeq(result.text, 3, Len(result.text) - 1) =
                       <<"failed to read file ">> \o path \o <<": ">>
                 /\ requests = << >>
           /\ (AudioOps # <<stat, read>> /\ Len(requests) = 1) =>
                 requests[1].params.note.Audio[1].Data = path
           /\ (AudioOps = <<stat, read>> /\ Len(requests) = 1) =>
                 \E fs \in FsAnswers :
                    /\ fs.read
                    /\ requests[1].params.note.Audio[1].Data =
                          EncodeToString(fs.bytes)

\* C29 witness: "/A" names an entry that cannot be read, and the call ended
\* with the read error.
C29_Witness ==
    /\ AudioPlainResolved
    /\ args.audio_data.s = <<"/", "A">>
    /\ Len(fsops) = 2
    /\ fsops[2].op = "ReadFile"
    /\ AudioResolutionFailed
    /\ result.text[3] = "failed to read file "
    /\ requests = << >>

\* C30: validation of the required fields looks only at presence and
\* string type, in a fixed order (create_card: deck_name, front, back), the
\* first failing field alone giving the error text; an empty string passes
\* and goes to the RPC client as it is.
C30_ValidationOrder ==
    /\ (phase = "done" /\ tool \in {"create_card", "create_card_with_media"}) =>
          /\ args.deck_name.t # "str" =>
                result.text = <<"Error: ",
                                "deck_name is required and must be a string">>
          /\ (args.deck_name.t = "str" /\ args.front.t # "str") =>
                result.text = <<"Error: ",
                                "front is required and must be a string">>
          /\ (args.deck_name.t = "str" /\ args.front.t = "str"
                /\ args.back.t # "str") =>
                result.text = <<"Error: ",
                                "back is required and must be a string">>
    /\ CreateCardValid =>
          /\ Len(requests) = 1
          /\ requests[1].params.note.DeckName = args.deck_name.s
          /\ requests[1].params.note.Fields.Front = args.front.s
          /\ requests[1].params.note.Fields.Back = args.back.s
    /\ (phase = "done" /\ tool = "add_media") =>
          /\ args.filename.t # "str" =>
                result.text = <<"Error: ",
                                "filename is required and must be a string">>
          /\ (args.filename.t = "str" /\ args.data.t # "str") =>
                result.text = <<"Error: ",
                                "data is required and must be a string">>
    /\ (phase = "done" /\ tool = "create_deck" /\ args.deck_name.t = "str") =>
          /\ Len(requests) = 1
          /\ requests[1].params.deck = args.deck_name.s
    /\ SearchValid =>
          /\ Len(requests) >= 1
          /\ requests[1].params.query = args.query.s

\* C30 witness: create_card with the empty string for deck_name and for
\* back sent addNote with the empty deck name.
C30_Witness ==
    /\ CreateCardValid
    /\ args.deck_name.s = << >>
    /\ args.back.s = << >>
    /\ Len(requests) = 1
    /\ requests[1].action = "addNote"
    /\ requests[1].params.note.DeckName = << >>

\* the reduced create_card handed a note to the remote
ReducedCardSent ==
    /\ build = "reduced" /\ phase = "done" /\ tool = "create_card"
    /\ Len(requests) >= 1
    /\ requests[Len(requests)].action = "addNote"

\* the media path arguments that were supplied, in the order of the code
MediaWanted ==
    SelectSeq(<<"image_path", "front_audio_path", "back_audio_path">>,
              LAMBDA k : HasText(args[k]))

\* the position of the store request of a supplied path argument
StoreIndex(k) == CHOOSE i \in 1..Len(MediaWanted) : MediaWanted[i] = k

\* the name a supplied path argument was stored under
StoredAs(k) == requests[StoreIndex(k)].params.filename

\* C24: in the reduced create_card the Front of the submitted note is the
\* image tag (only if an image was supplied), then the front text
\* unchanged, then the front sound reference (only if front audio was
\* supplied); the Back is the back text unchanged followed by the back
\* sound reference (only if back audio was supplied) and never holds the
\* image; with no media Front and Back are the input texts.  The tag and
\* the references name the files as they were stored.
C24_ReducedLayout ==
    ReducedCardSent =>
       LET note == requests[Len(requests)].params.note
           imageTag == IF HasText(args.image_path)
                       THEN <<"<img src=\"">> \o StoredAs("image_path")
                                \o <<"\"><br><br>">>
                       ELSE << >>
           sound(k) == IF HasText(args[k])
                       THEN <<"<br><br>[sound:">> \o StoredAs(k) \o <<"]">>
                       ELSE << >>
       IN /\ note.Fields.Front
                = imageTag \o args.front.s \o sound("front_audio_path")
          /\ note.Fields.Back = args.back.s \o sound("back_audio_path")
          /\ \A i \in 1..Len(note.Fields.Back) :
                note.Fields.Back[i] # "<img src=\""
          /\ MediaWanted = << >> =>
                /\ note.Fields.Front = args.front.s
                /\ note.Fields.Back = args.back.s

\* C24 witness: a card with an image and both audio files was submitted
\* with the image tag before and the sound reference after the front text.
C24_Witness ==
    /\ ReducedCardSent
    /\ args.image_path = Str(<<"m", "/", "i">>)
    /\ args.front_audio_path = Str(<<"f">>)
    /\ args.back_audio_path = Str(<<"m", "/", "b">>)
    /\ requests[4].params.note.Fields.Front
          = <<"<img src=\"", "i", "\"><br><br>", "Hola",
              "<br><br>[sound:", "f", "]">>
    /\ requests[4].params.note.Fields.Back
          = <<"Hello", "<br><br>[sound:", "b", "]">>

\* the reduced create_card passed its validation
ReducedCardValid ==
    /\ build = "reduced" /\ phase = "done" /\ tool = "create_card"
    /\ IsString(args.deck) /\ IsString(args.front) /\ IsString(args.back)

\* the part of a path after its last "/"
AfterLastSlash(path) ==
    LET cut == {i \in 1..Len(path) : path[i] = "/"}
        last == IF cut = {} THEN 0 ELSE CHOOSE i \in cut : \A j \in cut : j <= i
    IN SubSeq(path, last + 1, Len(path))

\* C27: the reduced create_card reads and stores the image, the front
\* audio and the back audio in this order, each only if its path argument
\* is a non-empty string, and then sends addNote; addNote is sent only
\* after every read and every store succeeded; the first failure ends the
\* call with an error-flagged result and no further file read or request;
\* no request removes media stored by an earlier step.
C27_ReducedOrder ==
    ReducedCardValid =>
       LET w == MediaWanted
           n == Len(w)
           sent == Len(requests) = n + 1
       IN /\ Len(requests) <= n + 1
          /\ Len(fsops) <= n
          /\ \A i \in 1..Len(fsops) :
                fsops[i] = [op |-> "ReadFile", path |-> args[w[i]].s]
          /\ \A i \in 1..Len(requests) :
                /\ i <= n =>
                      /\ requests[i].action = "storeMediaFile"
                      /\ requests[i].params.filename
                            = AfterLastSlash(args[w[i]].s)
                /\ i = n + 1 => requests[i].action = "addNote"
                /\ i < Len(requests) => ~ReplyFailed(i)
          /\ Len(fsops) \in {Len(requests), Len(requests) + 1}
                \/ (sent /\ Len(fsops) = n)
          /\ sent => Len(fsops) = n
          /\ ~sent =>
                /\ result.isError
                /\ IF Len(fsops) = Len(requests) + 1
                   THEN result.text[2] = "Failed to read "
                   ELSE /\ Len(requests) >= 1
                        /\ ReplyFailed(Len(requests))
                        /\ result.text[2] = "Failed to store "
          /\ (Len(requests) >= 1 /\ ReplyFailed(Len(requests))) => result.isError

\* C27 witness: with three media paths supplied the image was stored, the
\* store of the front audio failed, and the call ended there with an error.
C27_Witness ==
    /\ ReducedCardValid
    /\ Len(MediaWanted) = 3
    /\ Len(requests) = 2
    /\ Len(fsops) = 2
    /\ ~ReplyFailed(1)
    /\ ReplyFailed(2)
    /\ requests[2].params.filename = <<"f">>
    /\ result.isError

\* C21: for any number of tool calls, one after the other or interleaved
\* on the one shared client, the client's URL, Version and Timeout are
\* always what the constructor set, and nothing else is kept: what a call
\* has sent and what it returns is what its handler does on its own
\* arguments and the replies to its own requests with the client as
\* constructed, whatever the other calls did in between.
C21_NoSharedState ==
    /\ server = NewAnkiMCPServer(env)
    /\ \A c \in 1..MaxCalls :
          calls[c].pc # "free" =>
             LET own == ToolRun(NewAnkiMCPServer(env).ankiClient, calls[c].tool,
                                calls[c].args, Ahead(calls[c].replies))
             IN /\ Len(calls[c].requests) <= Len(own.requests)
                /\ \A i \in 1..Len(calls[c].requests) :
                      calls[c].requests[i] = own.requests[i]
                /\ calls[c].pc = "done" =>
                      /\ calls[c].requests = own.requests
                      /\ calls[c].replies = own.replies
                      /\ calls[c].result = own.result

\* C21 witness: a search_cards call is between its two requests while a
\* create_deck call that started on the same client has got its result.
C21_Witness ==
    /\ calls[1].tool = "search_cards" /\ calls[1].pc = "await"
    /\ Len(calls[1].requests) = 2 /\ Len(calls[1].replies) = 1
    /\ calls[2].tool = "create_deck" /\ calls[2].pc = "done"
    /\ Len(calls[2].replies) = 1
    /\ calls[2].result.text = <<"Successfully created deck: ", "Spanish">>
====
